---- MODULE Spec2Model ----
(***************************************************************************)
(* express-jobly: the data-access core of the companies / jobs / users     *)
(* REST API.  The model covers the partial-update builder                  *)
(* (helpers/sql.js), the list-filter builders of Company.findAll and       *)
(* Job.findAll, the update / remove operations of the three model classes  *)
(* and the user/application aggregation of User.findAll and User.get,     *)
(* the get and create operations of companies and jobs, User.register and *)
(* User.applyForJob (one call at a time, and two calls in flight at once), *)
(* the writing routes of /companies and /jobs behind the ensureIsAdmin     *)
(* middleware, and GET /companies.                                          *)
(*                                                                         *)
(* SQL text is a sequence of string tokens: every literal chunk of a       *)
(* template literal is one token, every interpolation contributes the      *)
(* tokens of the interpolated text, and a positional placeholder "$n" is   *)
(* one token.  The storage engine reads the statements back from these     *)
(* tokens, so a builder that numbers a placeholder wrongly is seen by the  *)
(* query it feeds.                                                         *)
(***************************************************************************)
EXTENDS Integers, Sequences, FiniteSets, TLC

VARIABLES companies, jobs, users, applications, jobIdSeq, suite, last

vars == <<companies, jobs, users, applications, jobIdSeq, suite, last>>

----------------------------------------------------------------------------
(* Bounds *)

\* longest data mapping handed to an update / to sqlForPartialUpdate
MaxDataLen == 2

\* largest placeholder number the engine recognises in a statement: the
\* longest statement is an update of MaxDataLen + 1 places or the INSERT of
\* a user, of six
MaxPlaceholder == MaxDataLen + 4

\* the last id the requests may draw from the sequence of jobs.id
MaxJobId == 3

----------------------------------------------------------------------------
(* JavaScript values *)

Str(s) == [t |-> "string", s |-> s, n |-> 0]

Num(n) == [t |-> "number", s |-> "", n |-> n]

Bool(b) == [t |-> "boolean", s |-> "", n |-> IF b THEN 1 ELSE 0]

Null == [t |-> "null", s |-> "", n |-> 0]

Undefined == [t |-> "undefined", s |-> "", n |-> 0]

\* JavaScript truthiness, as used by `a || b` and `if (a)`
Truthy(v) ==
  CASE v.t = "string" -> v.s # ""
    [] v.t = "number" -> v.n # 0
    [] v.t = "boolean" -> v.n = 1
    [] v.t \in {"object", "array"} -> TRUE
    [] OTHER -> FALSE

\* a plausible slip: the translation table is never consulted
Or_IgnoreLeft(a, b) == b

\* a || b
Or(a, b) == IF Truthy(a) THEN a ELSE b

\* the text a value contributes when interpolated into a template literal
ToText(v) ==
  CASE v.t = "string" -> v.s
    [] v.t = "number" -> ToString(v.n)
    [] v.t = "boolean" -> IF v.n = 1 THEN "true" ELSE "false"
    [] v.t = "null" -> "null"
    [] OTHER -> "undefined"

(* A JavaScript object used as a mapping: the sequence of its own          *)
(* properties [k, v] in insertion order, keys pairwise distinct.           *)
IsMapping(m) == \A i, j \in 1..Len(m) : m[i].k = m[j].k => i = j

ObjectKeys(m) == [i \in 1..Len(m) |-> m[i].k]

ObjectValues(m) == [i \in 1..Len(m) |-> m[i].v]

HasKey(m, key) == \E i \in 1..Len(m) : m[i].k = key

\* m[key]
Get(m, key) ==
  IF HasKey(m, key)
    THEN m[CHOOSE i \in 1..Len(m) : m[i].k = key].v
    ELSE Undefined

\* arr.indexOf(x), 0-based, -1 when absent
IndexOf(arr, x) ==
  IF \E i \in 1..Len(arr) : arr[i] = x
    THEN (CHOOSE i \in 1..Len(arr) : arr[i] = x /\ \A j \in 1..(i - 1) : arr[j] # x) - 1
    ELSE -1

\* all mappings of at most maxLen properties with keys in K and values in V
Mappings(K, V, maxLen) ==
  { m \in UNION { [1..n -> [k : K, v : V]] : n \in 0..maxLen } : IsMapping(m) }

----------------------------------------------------------------------------
(* SQL text *)

\* the placeholder `$${n}`
PH(n) == "$" \o ToString(n)

\* the placeholders $1 .. $MaxPlaceholder, by number
PlaceholderTokens == [n \in 1..MaxPlaceholder |-> PH(n)]

IsPH(tok) == \E n \in 1..MaxPlaceholder : tok = PlaceholderTokens[n]

PHNum(tok) == CHOOSE n \in 1..MaxPlaceholder : tok = PlaceholderTokens[n]

\* the placeholder numbers of a text, in order of appearance
Placeholders(text) ==
  LET phs == SelectSeq(text, IsPH)
  IN  [i \in 1..Len(phs) |-> PHNum(phs[i])]

RECURSIVE Join(_, _)
\* arr.join(sep) for an array of texts
Join(arr, sep) ==
  IF Len(arr) = 0 THEN <<>>
  ELSE IF Len(arr) = 1 THEN arr[1]
  ELSE arr[1] \o <<sep>> \o Join(Tail(arr), sep)

RECURSIVE Split(_, _)
\* the inverse of Join: the texts between the occurrences of sep
Split(text, sep) ==
  IF \A i \in 1..Len(text) : text[i] # sep THEN <<text>>
  ELSE LET p == CHOOSE i \in 1..Len(text) :
                  text[i] = sep /\ \A j \in 1..(i - 1) : text[j] # sep
       IN  <<SubSeq(text, 1, p - 1)>> \o Split(SubSeq(text, p + 1, Len(text)), sep)

----------------------------------------------------------------------------
(* helpers/sql.js *)

\* a plausible slip: logoUrl translated to the column of its neighbour
CompanyJsToSql_CopyPaste ==
  << [k |-> "numEmployees", v |-> Str("num_employees")],
     [k |-> "logoUrl", v |-> Str("num_employees")] >>

\* the tables the model classes pass as jsToSql
CompanyJsToSql ==
  << [k |-> "numEmployees", v |-> Str("num_employees")],
     [k |-> "logoUrl", v |-> Str("logo_url")] >>

JobJsToSql ==
  << [k |-> "title", v |-> Str("title")],
     [k |-> "salary", v |-> Str("salary")],
     [k |-> "equity", v |-> Str("equity")] >>

UserJsToSql ==
  << [k |-> "firstName", v |-> Str("first_name")],
     [k |-> "lastName", v |-> Str("last_name")],
     [k |-> "isAdmin", v |-> Str("is_admin")] >>

\* the thrown-error result of a call
Throw(name, message) == [threw |-> name, message |-> message]

\* a plausible slip: no check for empty data
sqlForPartialUpdate_NoGuard(dataToUpdate, jsToSql) ==
  LET keys == ObjectKeys(dataToUpdate)
      cols == [i \in 1..Len(keys) |->
                 << "\"", ToText(Or(Get(jsToSql, keys[i]), Str(keys[i]))), "\"=",
                    PH((i - 1) + 1) >>]
  IN  [threw |-> "none",
       setCols |-> Join(cols, ", "),
       values |-> ObjectValues(dataToUpdate)]

\* a plausible slip: `$${idx}` instead of `$${idx + 1}`
sqlForPartialUpdate_ZeroBased(dataToUpdate, jsToSql) ==
  LET keys == ObjectKeys(dataToUpdate)
      cols == [i \in 1..Len(keys) |->
                 << "\"", ToText(Or(Get(jsToSql, keys[i]), Str(keys[i]))), "\"=",
                    "$" \o ToString(i - 1) >>]
  IN  IF Len(keys) = 0
        THEN Throw("BadRequestError", "No data")
        ELSE [threw |-> "none",
              setCols |-> Join(cols, ", "),
              values |-> ObjectValues(dataToUpdate)]

\* a plausible slip: the value is written into the fragment
sqlForPartialUpdate_Inline(dataToUpdate, jsToSql) ==
  LET keys == ObjectKeys(dataToUpdate)
      cols == [i \in 1..Len(keys) |->
                 << "\"", ToText(Or(Get(jsToSql, keys[i]), Str(keys[i]))), "\"=",
                    "'", ToText(dataToUpdate[i].v), "'" >>]
  IN  IF Len(keys) = 0
        THEN Throw("BadRequestError", "No data")
        ELSE [threw |-> "none",
              setCols |-> Join(cols, ", "),
              values |-> ObjectValues(dataToUpdate)]

sqlForPartialUpdate(dataToUpdate, jsToSql) ==
  LET keys == ObjectKeys(dataToUpdate)
      \* TLA+ index i is the JavaScript idx + 1
      cols == [i \in 1..Len(keys) |->
                 << "\"", ToText(Or(Get(jsToSql, keys[i]), Str(keys[i]))), "\"=",
                    PH((i - 1) + 1) >>]
  IN  IF Len(keys) = 0
        THEN Throw("BadRequestError", "No data")
        ELSE [threw |-> "none",
              setCols |-> Join(cols, ", "),
              values |-> ObjectValues(dataToUpdate)]

----------------------------------------------------------------------------
(* The model classes and the data their update accepts *)

ModelClasses == {"Company", "Job", "User"}

JsToSql(class) ==
  CASE class = "Company" -> CompanyJsToSql
    [] class = "Job" -> JobJsToSql
    [] OTHER -> UserJsToSql

\* "Data can include: ..." of the three update methods
UpdateFields(class) ==
  CASE class = "Company" -> {"name", "description", "numEmployees", "logoUrl"}
    [] class = "Job" -> {"title", "salary", "equity"}
    [] OTHER -> {"firstName", "lastName", "password", "email", "isAdmin"}

\* values of the data handed to sqlForPartialUpdate on its own
SqlValues == {Str("A"), Str("b"), Num(32), Null}

NoCall == [op |-> "none"]

----------------------------------------------------------------------------
(* The storage state the tests start from *)

CompanyRow(name, description, numEmployees, logoUrl) ==
  [name |-> name, description |-> description,
   num_employees |-> numEmployees, logo_url |-> logoUrl]

JobRow(title, salary, equity, companyHandle) ==
  [title |-> title, salary |-> salary, equity |-> equity,
   company_handle |-> companyHandle]

UserRow(password, firstName, lastName, email, isAdmin) ==
  [password |-> password, first_name |-> firstName, last_name |-> lastName,
   email |-> email, is_admin |-> isAdmin]

\* bcrypt.hash(password, BCRYPT_WORK_FACTOR)
Hash(password) == Str("bcrypt(" \o ToText(password) \o ")")

InitCompanies ==
  (Str("c1") :> CompanyRow(Str("C1"), Str("Desc1"), Num(1), Str("http://c1.img"))) @@
  (Str("c2") :> CompanyRow(Str("C2"), Str("Desc2"), Num(2), Str("http://c2.img")))

InitJobs ==
  (Num(1) :> JobRow(Str("job1"), Num(55000), Str("0"), Str("c1"))) @@
  (Num(2) :> JobRow(Str("job2"), Num(65000), Str("0"), Str("c2")))

InitUsers ==
  (Str("u1") :> UserRow(Hash(Str("password1")), Str("U1F"), Str("U1L"),
                        Str("user1@user.com"), Bool(FALSE))) @@
  (Str("u2") :> UserRow(Hash(Str("password2")), Str("U2F"), Str("U2L"),
                        Str("user2@user.com"), Bool(FALSE)))

\* a row of applications: the table has no key of its own, so the n-th row
\* that holds one (username, job_id) pair is told apart by n
ApplicationRow(username, jobId, n) == <<username, jobId, n>>

InitApplications ==
  { ApplicationRow(Str("u1"), Num(1), 1), ApplicationRow(Str("u1"), Num(2), 1) }

InitStorage ==
  /\ companies = InitCompanies
  /\ jobs = InitJobs
  /\ users = InitUsers
  /\ applications = InitApplications
  /\ jobIdSeq = Cardinality(DOMAIN InitJobs)

storage == <<companies, jobs, users, applications, jobIdSeq>>

----------------------------------------------------------------------------
(* Calls are made one at a time: `last` holds the call that has just run   *)
(* (its arguments, the statements it sent, what it returned or threw)      *)
(* until the caller has taken the result.                                  *)

Idle == last.op = "none"

Return ==
  /\ ~Idle
  /\ last' = NoCall
  /\ UNCHANGED <<storage, suite>>

----------------------------------------------------------------------------
(* sqlForPartialUpdate on its own *)

SqlForPartialUpdateCall ==
  /\ Idle
  /\ \E class \in ModelClasses :
       \E data \in Mappings(UpdateFields(class), SqlValues, MaxDataLen) :
         last' = [op |-> "sqlForPartialUpdate",
                  dataToUpdate |-> data,
                  jsToSql |-> JsToSql(class),
                  result |-> sqlForPartialUpdate(data, JsToSql(class))]
  /\ UNCHANGED <<storage, suite>>

InitSql == InitStorage /\ suite = "sql" /\ last = NoCall

NextSql == SqlForPartialUpdateCall \/ Return

SpecSql == InitSql /\ [][NextSql]_vars

\* the call under test in SpecSql
SqlCalled == last.op = "sqlForPartialUpdate"

\* the comma-separated entries of a SET fragment
SetEntries(setCols) == Split(setCols, ", ")

(* C3: for non-empty dataToUpdate with k keys, setCols has exactly k       *)
(* comma-separated entries, the i-th ending in =$i, and values has length  *)
(* k with the value of the i-th key at position i (null included).         *)
C3_FragmentAndValuesAligned ==
  (SqlCalled /\ Len(last.dataToUpdate) > 0) =>
    LET k == Len(last.dataToUpdate)
        r == last.result
    IN  /\ r.threw = "none"
        /\ Len(SetEntries(r.setCols)) = k
        /\ Len(r.values) = k
        /\ \A i \in 1..k :
             LET e == SetEntries(r.setCols)[i]
             IN  /\ Len(e) >= 2
                 /\ e[Len(e)] = PH(i)
                 /\ e[Len(e) - 1] = "\"="
                 /\ Placeholders(e) = <<i>>
                 /\ r.values[i] = last.dataToUpdate[i].v

C3_Witness ==
  /\ SqlCalled
  /\ Len(last.dataToUpdate) = 2
  /\ last.dataToUpdate[1].v = Null
  /\ last.dataToUpdate[2].v = Str("A")
  /\ last.result.threw = "none"
  /\ last.result.values = <<Null, Str("A")>>

(* C5: the column of each entry is jsToSql[key] when the table has the     *)
(* key and the key itself otherwise, wrapped in double quotes;             *)
(* {firstName, email} under the users' table gives                         *)
(* "first_name"=$1, "email"=$2.                                            *)
C5_ColumnTranslated ==
  (SqlCalled /\ Len(last.dataToUpdate) > 0) =>
    LET r == last.result
        entries == SetEntries(r.setCols)
    IN  /\ Len(entries) = Len(last.dataToUpdate)
        /\ \A i \in 1..Len(entries) :
             LET key == last.dataToUpdate[i].k
                 column == IF HasKey(last.jsToSql, key)
                             THEN Get(last.jsToSql, key).s
                             ELSE key
             IN  SubSeq(entries[i], 1, 3) = << "\"", column, "\"=" >>
        /\ (ObjectKeys(last.dataToUpdate) = <<"firstName", "email">> =>
              r.setCols = << "\"", "first_name", "\"=", "$1", ", ",
                             "\"", "email", "\"=", "$2" >>)

C5_Witness ==
  /\ SqlCalled
  /\ last.dataToUpdate = << [k |-> "firstName", v |-> Str("A")],
                            [k |-> "email", v |-> Str("b")] >>
  /\ last.result.setCols = << "\"", "first_name", "\"=", "$1", ", ",
                              "\"", "email", "\"=", "$2" >>
  /\ last.result.values = <<Str("A"), Str("b")>>

\* the mappings with the keys of m, in the same order, and any values
SameKeys(m) ==
  { [i \in 1..Len(m) |-> [k |-> m[i].k, v |-> vs[i]]] :
      vs \in [1..Len(m) -> SqlValues] }

(* C6: the SET fragment depends on the keys only: every call with the      *)
(* same keys in the same order and other values returns the same setCols,  *)
(* and the values are returned in the values array.                        *)
C6_FragmentIndependentOfValues ==
  (SqlCalled /\ Len(last.dataToUpdate) > 0) =>
    \A other \in SameKeys(last.dataToUpdate) :
      LET r == sqlForPartialUpdate(other, last.jsToSql)
      IN  /\ r.setCols = last.result.setCols
          /\ r.values = ObjectValues(other)

C6_Witness ==
  /\ SqlCalled
  /\ Len(last.dataToUpdate) = 2
  /\ last.dataToUpdate[1].v # last.dataToUpdate[2].v
  /\ \E other \in SameKeys(last.dataToUpdate) :
       /\ other # last.dataToUpdate
       /\ sqlForPartialUpdate(other, last.jsToSql).setCols = last.result.setCols

----------------------------------------------------------------------------
(* The storage engine behind db.query: three tables keyed by their primary *)
(* key and the applications join table.  A statement is read back from its *)
(* tokens; a statement that is not well formed, or whose placeholders are  *)
(* not exactly $1..$n for the n parameters bound, is an error.             *)

TableKey(tableName) ==
  CASE tableName = "companies" -> "handle"
    [] tableName = "jobs" -> "id"
    [] OTHER -> "username"

TableCols(tableName) ==
  CASE tableName = "companies" -> {"name", "description", "num_employees", "logo_url"}
    [] tableName = "jobs" -> {"title", "salary", "equity", "company_handle"}
    [] OTHER -> {"password", "first_name", "last_name", "email", "is_admin"}

CompanyReturning ==
  " RETURNING handle, name, description, num_employees AS \"numEmployees\", logo_url AS \"logoUrl\""

JobReturning == " RETURNING id, title, salary, equity, company_handle"

UserReturning ==
  " RETURNING username, first_name AS \"firstName\", last_name AS \"lastName\", email, is_admin AS \"isAdmin\""

\* the <<column, output name>> pairs of a RETURNING clause
ReturningList(clause) ==
  CASE clause = CompanyReturning ->
         { <<"handle", "handle">>, <<"name", "name">>, <<"description", "description">>,
           <<"num_employees", "numEmployees">>, <<"logo_url", "logoUrl">> }
    [] clause = JobReturning ->
         { <<"id", "id">>, <<"title", "title">>, <<"salary", "salary">>,
           <<"equity", "equity">>, <<"company_handle", "company_handle">> }
    [] clause = UserReturning ->
         { <<"username", "username">>, <<"first_name", "firstName">>,
           <<"last_name", "lastName">>, <<"email", "email">>, <<"is_admin", "isAdmin">> }
    [] OTHER -> {}

ReturningClauses == {CompanyReturning, JobReturning, UserReturning}

\* the value of a column of the row stored under key
ColumnValue(tableName, key, row, col) ==
  IF col = TableKey(tableName) THEN key ELSE row[col]

\* the record a RETURNING / SELECT list makes of a row
Project(tableName, key, row, list) ==
  [name \in {p[2] : p \in list} |->
     ColumnValue(tableName, key, row, (CHOOSE p \in list : p[2] = name)[1])]

\* the stored form of a value: a NUMERIC column is read back as a string
StoreAs(col, v) ==
  IF col = "equity" /\ v.t = "number" THEN Str(ToString(v.n)) ELSE v

\* the parameters bind exactly the placeholders of the text
Bound(text, params) ==
  { Placeholders(text)[i] : i \in 1..Len(Placeholders(text)) } = 1..Len(params)

\* UPDATE <table> SET <entries> WHERE <key> = $k RETURNING ...
DbUpdate(tableName, table, text, params) ==
  LET n == Len(text)
      shaped == /\ n >= 4
                /\ text[1] = "UPDATE " \o tableName \o " SET "
                /\ text[n - 2] = " WHERE " \o TableKey(tableName) \o " = "
                /\ IsPH(text[n - 1])
                /\ text[n] \in ReturningClauses
      entries == Split(SubSeq(text, 2, n - 3), ", ")
      EntryOk(e) == /\ Len(e) = 4
                    /\ e[1] = "\""
                    /\ e[2] \in TableCols(tableName)
                    /\ e[3] = "\"="
                    /\ IsPH(e[4])
      wellFormed == /\ shaped
                    /\ \A i \in 1..Len(entries) : EntryOk(entries[i])
                    /\ \A i, j \in 1..Len(entries) :
                         entries[i][2] = entries[j][2] => i = j
      key == params[PHNum(text[n - 1])]
      Assigned(c) == \E i \in 1..Len(entries) : entries[i][2] = c
      NewValue(c) ==
        params[PHNum(entries[CHOOSE i \in 1..Len(entries) : entries[i][2] = c][4])]
      newRow == [c \in TableCols(tableName) |->
                   IF Assigned(c) THEN StoreAs(c, NewValue(c)) ELSE table[key][c]]
  IN  IF ~(wellFormed /\ Bound(text, params))
        THEN [error |-> TRUE, table |-> table, rows |-> <<>>]
      ELSE IF key \notin DOMAIN table
        THEN [error |-> FALSE, table |-> table, rows |-> <<>>]
      ELSE [error |-> FALSE,
            table |-> [table EXCEPT ![key] = newRow],
            rows |-> << Project(tableName, key, newRow, ReturningList(text[n])) >>]

\* DELETE FROM <table> WHERE <key> = $1 RETURNING <key>
DbDelete(tableName, table, text, params) ==
  LET wellFormed == /\ Len(text) = 3
                    /\ text[1] = "DELETE FROM " \o tableName \o " WHERE "
                                   \o TableKey(tableName) \o " = "
                    /\ IsPH(text[2])
                    /\ text[3] = " RETURNING " \o TableKey(tableName)
      key == params[PHNum(text[2])]
  IN  IF ~(wellFormed /\ Bound(text, params))
        THEN [error |-> TRUE, table |-> table, rows |-> <<>>]
      ELSE IF key \notin DOMAIN table
        THEN [error |-> FALSE, table |-> table, rows |-> <<>>]
      ELSE [error |-> FALSE,
            table |-> [k \in DOMAIN table \ {key} |-> table[k]],
            rows |-> << Project(tableName, key, table[key],
                                { <<TableKey(tableName), TableKey(tableName)>> }) >>]

\* jobs(company_handle FK): the jobs of a deleted company go with it
JobsCascade(companiesAfter, jobsBefore) ==
  [id \in { j \in DOMAIN jobsBefore :
              jobsBefore[j].company_handle \in DOMAIN companiesAfter } |-> jobsBefore[id]]

\* applications(username FK, job_id FK): so do the applications of a deleted user or job
ApplicationsCascade(usersAfter, jobsAfter, applicationsBefore) ==
  { a \in applicationsBefore : a[1] \in DOMAIN usersAfter /\ a[2] \in DOMAIN jobsAfter }

----------------------------------------------------------------------------
(* What a method call leaves behind: the statements it sent with their     *)
(* parameters, the table it wrote, and what it returned or threw.          *)

Query(text, params) == [text |-> text, params |-> params]

Thrown(name, message, queries, table) ==
  [threw |-> name, message |-> message, queries |-> queries, table |-> table]

Returned(ret, queries, table) ==
  [threw |-> "none", ret |-> ret, queries |-> queries, table |-> table]

\* an error of the storage engine propagates unchanged
StorageError(queries, table) == Thrown("StorageError", "db.query", queries, table)

----------------------------------------------------------------------------
(* models/company.js *)

CompanyUpdate(handle, data) ==
  LET sql == sqlForPartialUpdate(data, CompanyJsToSql)
  IN  IF sql.threw # "none"
        THEN Thrown(sql.threw, sql.message, <<>>, companies)
        ELSE
          LET handleVarIdx == "$" \o ToString(Len(sql.values) + 1)
              querySql == <<"UPDATE companies SET ">> \o sql.setCols
                            \o <<" WHERE handle = ", handleVarIdx, CompanyReturning>>
              q == Query(querySql, sql.values \o <<handle>>)
              result == DbUpdate("companies", companies, q.text, q.params)
          IN  IF result.error THEN StorageError(<<q>>, companies)
              ELSE IF Len(result.rows) = 0
                THEN Thrown("NotFoundError", "No company: " \o ToText(handle),
                            <<q>>, result.table)
              ELSE Returned(result.rows[1], <<q>>, result.table)

CompanyRemove(handle) ==
  LET q == Query(<<"DELETE FROM companies WHERE handle = ", "$1", " RETURNING handle">>,
                 <<handle>>)
      result == DbDelete("companies", companies, q.text, q.params)
  IN  IF result.error THEN StorageError(<<q>>, companies)
      ELSE IF Len(result.rows) = 0
        THEN Thrown("NotFoundError", "No company: " \o ToText(handle), <<q>>, result.table)
      ELSE Returned(Undefined, <<q>>, result.table)

----------------------------------------------------------------------------
(* models/job.js *)

JobUpdate(id, data) ==
  LET sql == sqlForPartialUpdate(data, JobJsToSql)
  IN  IF sql.threw # "none"
        THEN Thrown(sql.threw, sql.message, <<>>, jobs)
        ELSE
          LET idVarIdx == "$" \o ToString(Len(sql.values) + 1)
              querySql == <<"UPDATE jobs SET ">> \o sql.setCols
                            \o <<" WHERE id = ", idVarIdx, JobReturning>>
              q == Query(querySql, sql.values \o <<id>>)
              result == DbUpdate("jobs", jobs, q.text, q.params)
          IN  IF result.error THEN StorageError(<<q>>, jobs)
              ELSE IF Len(result.rows) = 0
                THEN Thrown("NotFoundError", "No job: " \o ToText(id), <<q>>, result.table)
              ELSE Returned(result.rows[1], <<q>>, result.table)

\* a plausible slip: no `if (!job) throw new NotFoundError(...)`
JobRemove_NoThrow(id) ==
  LET q == Query(<<"DELETE FROM jobs WHERE id = ", "$1", " RETURNING id">>, <<id>>)
      result == DbDelete("jobs", jobs, q.text, q.params)
  IN  IF result.error THEN StorageError(<<q>>, jobs)
      ELSE Returned(Undefined, <<q>>, result.table)

JobRemove(id) ==
  LET q == Query(<<"DELETE FROM jobs WHERE id = ", "$1", " RETURNING id">>, <<id>>)
      result == DbDelete("jobs", jobs, q.text, q.params)
  IN  IF result.error THEN StorageError(<<q>>, jobs)
      ELSE IF Len(result.rows) = 0
        THEN Thrown("NotFoundError", "No job: " \o ToText(id), <<q>>, result.table)
      ELSE Returned(Undefined, <<q>>, result.table)

----------------------------------------------------------------------------
(* models/user.js *)

\* if (data.password) data.password = await bcrypt.hash(data.password, ...)
HashPassword(data) ==
  IF Truthy(Get(data, "password"))
    THEN [i \in 1..Len(data) |->
            IF data[i].k = "password"
              THEN [k |-> "password", v |-> Hash(data[i].v)]
              ELSE data[i]]
    ELSE data

\* a plausible slip: the key placeholder numbered values.length, not values.length + 1
UserUpdate_KeyIndexOff(username, data) ==
  LET hashed == HashPassword(data)
      sql == sqlForPartialUpdate(hashed, UserJsToSql)
  IN  IF sql.threw # "none"
        THEN Thrown(sql.threw, sql.message, <<>>, users)
        ELSE
          LET usernameVarIdx == "$" \o ToString(Len(sql.values))
              querySql == <<"UPDATE users SET ">> \o sql.setCols
                            \o <<" WHERE username = ", usernameVarIdx, UserReturning>>
              q == Query(querySql, sql.values \o <<username>>)
              result == DbUpdate("users", users, q.text, q.params)
          IN  IF result.error THEN StorageError(<<q>>, users)
              ELSE IF Len(result.rows) = 0
                THEN Thrown("NotFoundError", "No user: " \o ToText(username),
                            <<q>>, result.table)
              ELSE Returned(result.rows[1], <<q>>, result.table)

UserUpdate(username, data) ==
  LET hashed == HashPassword(data)
      sql == sqlForPartialUpdate(hashed, UserJsToSql)
  IN  IF sql.threw # "none"
        THEN Thrown(sql.threw, sql.message, <<>>, users)
        ELSE
          LET usernameVarIdx == "$" \o ToString(Len(sql.values) + 1)
              querySql == <<"UPDATE users SET ">> \o sql.setCols
                            \o <<" WHERE username = ", usernameVarIdx, UserReturning>>
              q == Query(querySql, sql.values \o <<username>>)
              result == DbUpdate("users", users, q.text, q.params)
          IN  IF result.error THEN StorageError(<<q>>, users)
              ELSE IF Len(result.rows) = 0
                THEN Thrown("NotFoundError", "No user: " \o ToText(username),
                            <<q>>, result.table)
              ELSE Returned(result.rows[1], <<q>>, result.table)

UserRemove_NoThrow(username) ==
  LET q == Query(<<"DELETE FROM users WHERE username = ", "$1", " RETURNING username">>,
                 <<username>>)
      result == DbDelete("users", users, q.text, q.params)
  IN  IF result.error THEN StorageError(<<q>>, users)
      ELSE Returned(Undefined, <<q>>, result.table)

UserRemove(username) ==
  LET q == Query(<<"DELETE FROM users WHERE username = ", "$1", " RETURNING username">>,
                 <<username>>)
      result == DbDelete("users", users, q.text, q.params)
  IN  IF result.error THEN StorageError(<<q>>, users)
      ELSE IF Len(result.rows) = 0
        THEN Thrown("NotFoundError", "No user: " \o ToText(username), <<q>>, result.table)
      ELSE Returned(Undefined, <<q>>, result.table)

\* the rows of applications of a user
ApplicationsOf(username) == { a \in applications : a[1] = username }

\* the job ids a user has applied for
AppliedJobs(username) == { a[2] : a \in ApplicationsOf(username) }

\* the orders in which the engine may return the members of S
Orders(S) == { o \in [1..Cardinality(S) -> S] : \A i, j \in DOMAIN o : o[i] = o[j] => i = j }

UserJoinSelect ==
  "SELECT users.username, first_name AS \"firstName\", last_name AS \"lastName\", email, is_admin AS \"isAdmin\", job_id FROM users LEFT JOIN applications ON users.username = applications.username"

JoinRow(username, jobId) ==
  [username |-> username,
   firstName |-> users[username].first_name,
   lastName |-> users[username].last_name,
   email |-> users[username].email,
   isAdmin |-> users[username].is_admin,
   job_id |-> jobId]

\* users LEFT JOIN applications for one user: one row per application, in
\* the order given, or a single row with a null job_id when there is none
UserJoinRows(username, order) ==
  IF username \notin DOMAIN users THEN <<>>
  ELSE IF Len(order) = 0 THEN << JoinRow(username, Null) >>
  ELSE [i \in 1..Len(order) |-> JoinRow(username, order[i][2])]

\* the usernames of the model in ORDER BY users.username order
SortedUsernames == << Str("new"), Str("nope"), Str("u1"), Str("u2") >>

\* an order of the joined rows of every stored user
JoinOrders ==
  { ord \in [DOMAIN users -> UNION { Orders(ApplicationsOf(u)) : u \in DOMAIN users }] :
      \A u \in DOMAIN users : ord[u] \in Orders(ApplicationsOf(u)) }

RECURSIVE LeftJoinOrdered(_, _)
\* ... ORDER BY users.username
LeftJoinOrdered(names, ord) ==
  IF Len(names) = 0 THEN <<>>
  ELSE (IF Head(names) \in DOMAIN users
          THEN UserJoinRows(Head(names), ord[Head(names)])
          ELSE <<>>)
       \o LeftJoinOrdered(Tail(names), ord)

\* Arrays are objects: a variable or a property holds a reference to one.
\* The heap of a call is the sequence of its arrays, a reference an index.
JobsRef == 1

\* const jobs = []
NewHeap == << <<>> >>

\* arr.push(x)
Push(heap, ref, x) == [heap EXCEPT ![ref] = Append(@, x)]

\* [...arr]: a new array with the elements of arr; the heap with it, last
Spread(heap, ref) == Append(heap, heap[ref])

\* arr.length = 0
Truncate(heap, ref) == [heap EXCEPT ![ref] = <<>>]

RECURSIVE ForEachRow_NoSpread(_, _, _, _)
ForEachRow_NoSpread(resultRows, i, heap, allUsers) ==
  IF i > Len(resultRows) THEN [allUsers |-> allUsers, heap |-> heap]
  ELSE
    LET currObj == resultRows[i]
        pushed == Push(heap, JobsRef, currObj.job_id)
    IN  IF i + 1 > Len(resultRows) \/ currObj.username # resultRows[i + 1].username
          THEN LET finalUserObj == [username |-> currObj.username,
                                    firstName |-> currObj.firstName,
                                    lastName |-> currObj.lastName,
                                    email |-> currObj.email,
                                    isAdmin |-> currObj.isAdmin,
                                    jobs |-> JobsRef]
               IN  ForEachRow_NoSpread(resultRows, i + 1, Truncate(pushed, JobsRef),
                                       Append(allUsers, finalUserObj))
          ELSE ForEachRow_NoSpread(resultRows, i + 1, pushed, allUsers)

RECURSIVE ForEachRow_NoReset(_, _, _, _)
RECURSIVE ForEachRow(_, _, _, _)
\* resultRows.forEach((currObj, i) => ...), from row i on, with the heap
\* (the jobs array at JobsRef) and the allUsers array as they stand; the
\* jobs property of an entity is a reference
ForEachRow_NoReset(resultRows, i, heap, allUsers) ==
  IF i > Len(resultRows) THEN [allUsers |-> allUsers, heap |-> heap]
  ELSE
    LET currObj == resultRows[i]
        pushed == Push(heap, JobsRef, currObj.job_id)
    IN  IF i + 1 > Len(resultRows) \/ currObj.username # resultRows[i + 1].username
          THEN LET spread == Spread(pushed, JobsRef)
                   finalUserObj == [username |-> currObj.username,
                                    firstName |-> currObj.firstName,
                                    lastName |-> currObj.lastName,
                                    email |-> currObj.email,
                                    isAdmin |-> currObj.isAdmin,
                                    jobs |-> Len(spread)]
               IN  ForEachRow_NoReset(resultRows, i + 1, spread,
                                      Append(allUsers, finalUserObj))
          ELSE ForEachRow_NoReset(resultRows, i + 1, pushed, allUsers)

ForEachRow(resultRows, i, heap, allUsers) ==
  IF i > Len(resultRows) THEN [allUsers |-> allUsers, heap |-> heap]
  ELSE
    LET currObj == resultRows[i]
        pushed == Push(heap, JobsRef, currObj.job_id)
    IN  IF i + 1 > Len(resultRows) \/ currObj.username # resultRows[i + 1].username
          THEN LET spread == Spread(pushed, JobsRef)
                   finalUserObj == [username |-> currObj.username,
                                    firstName |-> currObj.firstName,
                                    lastName |-> currObj.lastName,
                                    email |-> currObj.email,
                                    isAdmin |-> currObj.isAdmin,
                                    jobs |-> Len(spread)]
               IN  ForEachRow(resultRows, i + 1, Truncate(spread, JobsRef),
                              Append(allUsers, finalUserObj))
          ELSE ForEachRow(resultRows, i + 1, pushed, allUsers)

\* the entities as their reader sees them: each jobs reference followed
Deref(allUsers, heap) ==
  [i \in 1..Len(allUsers) |-> [allUsers[i] EXCEPT !.jobs = heap[@]]]

\* User.findAll, given the rows the query returned; `objects` keeps the
\* returned entities with their references and the heap they point into
UserFindAll(resultRows) ==
  LET loop == ForEachRow(resultRows, 1, NewHeap, <<>>)
  IN  Returned(Deref(loop.allUsers, loop.heap),
               << Query(<<UserJoinSelect, " ORDER BY users.username">>, <<>>) >>,
               users)
      @@ [objects |-> loop]

\* User.get, given the rows the query returned
UserGet(username, rows) ==
  LET q == Query(<<UserJoinSelect, " WHERE users.username = ", "$1", ";">>, <<username>>)
  IN  IF Len(rows) = 0
        THEN Thrown("NotFoundError", "No user: " \o ToText(username), <<q>>, users)
        ELSE Returned([username |-> username,
                       firstName |-> rows[1].firstName,
                       lastName |-> rows[1].lastName,
                       email |-> rows[1].email,
                       isAdmin |-> rows[1].isAdmin,
                       jobs |-> [i \in 1..Len(rows) |-> rows[i].job_id]],
                      <<q>>, users)

----------------------------------------------------------------------------
(* Get by key of companies and jobs *)

CompanyGetSelect ==
  "SELECT handle, name, description, num_employees AS \"numEmployees\", logo_url AS \"logoUrl\" FROM companies WHERE handle = "

JobGetSelect == "SELECT title, salary, equity, company_handle FROM jobs WHERE id = "

\* the <<column, output name>> pairs of the SELECT list of a get
GetSelectList(select) ==
  CASE select = CompanyGetSelect ->
         { <<"handle", "handle">>, <<"name", "name">>, <<"description", "description">>,
           <<"num_employees", "numEmployees">>, <<"logo_url", "logoUrl">> }
    [] select = JobGetSelect ->
         { <<"title", "title">>, <<"salary", "salary">>,
           <<"equity", "equity">>, <<"company_handle", "company_handle">> }
    [] select = "SELECT handle FROM companies WHERE handle = " ->
         { <<"handle", "handle">> }
    [] select = "SELECT username FROM users WHERE username = " ->
         { <<"username", "username">> }
    [] select = "SELECT id FROM jobs WHERE id = " ->
         { <<"id", "id">> }
    [] OTHER -> {}

\* SELECT <list> FROM <table> WHERE <key> = $1
DbSelectByKey(tableName, table, text, params) ==
  LET wellFormed == /\ Len(text) = 2
                    /\ GetSelectList(text[1]) # {}
                    /\ IsPH(text[2])
      key == params[PHNum(text[2])]
  IN  IF ~(wellFormed /\ Bound(text, params))
        THEN [error |-> TRUE, rows |-> <<>>]
      ELSE IF key \notin DOMAIN table
        THEN [error |-> FALSE, rows |-> <<>>]
      ELSE [error |-> FALSE,
            rows |-> << Project(tableName, key, table[key], GetSelectList(text[1])) >>]

CompanyGet_NoThrow(handle) ==
  LET q == Query(<<CompanyGetSelect, "$1">>, <<handle>>)
      companyRes == DbSelectByKey("companies", companies, q.text, q.params)
  IN  IF companyRes.error THEN StorageError(<<q>>, companies)
      ELSE Returned(IF Len(companyRes.rows) = 0 THEN Undefined ELSE companyRes.rows[1],
                    <<q>>, companies)

CompanyGet(handle) ==
  LET q == Query(<<CompanyGetSelect, "$1">>, <<handle>>)
      companyRes == DbSelectByKey("companies", companies, q.text, q.params)
  IN  IF companyRes.error THEN StorageError(<<q>>, companies)
      ELSE IF Len(companyRes.rows) = 0
        THEN Thrown("NotFoundError", "No company: " \o ToText(handle), <<q>>, companies)
      ELSE Returned(companyRes.rows[1], <<q>>, companies)

JobGet(id) ==
  LET q == Query(<<JobGetSelect, "$1">>, <<id>>)
      jobRes == DbSelectByKey("jobs", jobs, q.text, q.params)
  IN  IF jobRes.error THEN StorageError(<<q>>, jobs)
      ELSE IF Len(jobRes.rows) = 0
        THEN Thrown("NotFoundError", "No job: " \o ToText(id), <<q>>, jobs)
      ELSE Returned(jobRes.rows[1], <<q>>, jobs)

----------------------------------------------------------------------------
(* The calls of the model-class suites.  A run exercises the methods of    *)
(* one model class (`suite`), on every storage state they lead to.         *)

Handles == { Str("c1"), Str("c2"), Str("nope") }

JobIds == { Num(1), Num(2), Num(0) }

Usernames == { Str("u1"), Str("u2"), Str("nope") }

\* the keys updates are aimed at: one stored row of each table (the other
\* stored row is the bystander) and one key that is never stored
UpdateHandles == { Str("c1"), Str("nope") }

UpdateJobIds == { Num(1), Num(0) }

UpdateUsernames == { Str("u1"), Str("nope") }

\* the values an update may carry for a field
NewValues(field) ==
  CASE field = "name" -> { Str("C1-new") }
    [] field = "description" -> { Str("New Description") }
    [] field = "numEmployees" -> { Num(10), Null }
    [] field = "logoUrl" -> { Str("http://new.img"), Null }
    [] field = "title" -> { Str("job-new") }
    [] field = "salary" -> { Num(100000), Null }
    [] field = "equity" -> { Num(1) }
    [] field = "firstName" -> { Str("New") }
    [] field = "lastName" -> { Str("NewL") }
    [] field = "password" -> { Str("new-password") }
    [] field = "email" -> { Str("new@email.com") }
    [] OTHER -> { Bool(TRUE) }

\* the data mappings of at most MaxDataLen of the fields, in every order
UpdateData(fields) ==
  LET pairs == UNION { { [k |-> f, v |-> v] : v \in NewValues(f) } : f \in fields }
  IN  { m \in UNION { [1..n -> pairs] : n \in 0..MaxDataLen } : IsMapping(m) }

CompanyUpdateData == UpdateData(UpdateFields("Company"))

JobUpdateData == UpdateData(UpdateFields("Job"))

UserUpdateData == UpdateData(UpdateFields("User"))

Snapshot ==
  [companies |-> companies, jobs |-> jobs, users |-> users, applications |-> applications]

\* the record of a call: method, key, data before and after, storage before,
\* and what the method sent and returned or threw
Call(op, key, data, dataAfter, r) ==
  [op |-> op, key |-> key, data |-> data, dataAfter |-> dataAfter,
   before |-> Snapshot, result |-> [f \in DOMAIN r \ {"table"} |-> r[f]]]

CompanyUpdateCall ==
  /\ Idle /\ suite = "companies"
  /\ \E handle \in UpdateHandles, data \in CompanyUpdateData :
       LET r == CompanyUpdate(handle, data)
       IN  /\ companies' = r.table
           /\ last' = Call("Company.update", handle, data, data, r)
  /\ UNCHANGED <<jobs, users, applications, jobIdSeq, suite>>

CompanyRemoveCall ==
  /\ Idle /\ suite \in {"companies", "creates"}
  /\ \E handle \in Handles :
       LET r == CompanyRemove(handle)
       IN  /\ companies' = r.table
           /\ jobs' = JobsCascade(r.table, jobs)
           /\ applications' = ApplicationsCascade(users, JobsCascade(r.table, jobs),
                                                  applications)
           /\ last' = Call("Company.remove", handle, <<>>, <<>>, r)
  /\ UNCHANGED <<users, jobIdSeq, suite>>

JobUpdateCall ==
  /\ Idle /\ suite = "jobs"
  /\ \E id \in UpdateJobIds, data \in JobUpdateData :
       LET r == JobUpdate(id, data)
       IN  /\ jobs' = r.table
           /\ last' = Call("Job.update", id, data, data, r)
  /\ UNCHANGED <<companies, users, applications, jobIdSeq, suite>>

JobRemoveCall ==
  /\ Idle /\ suite = "jobs"
  /\ \E id \in JobIds :
       LET r == JobRemove(id)
       IN  /\ jobs' = r.table
           /\ applications' = ApplicationsCascade(users, r.table, applications)
           /\ last' = Call("Job.remove", id, <<>>, <<>>, r)
  /\ UNCHANGED <<companies, users, jobIdSeq, suite>>

UserUpdateCall ==
  /\ Idle /\ suite = "users"
  /\ \E username \in UpdateUsernames, data \in UserUpdateData :
       LET r == UserUpdate(username, data)
       IN  /\ users' = r.table
           /\ last' = Call("User.update", username, data, HashPassword(data), r)
  /\ UNCHANGED <<companies, jobs, applications, jobIdSeq, suite>>

UserRemoveCall ==
  /\ Idle /\ suite \in {"users", "creates"}
  /\ \E username \in Usernames :
       LET r == UserRemove(username)
       IN  /\ users' = r.table
           /\ applications' = ApplicationsCascade(r.table, jobs, applications)
           /\ last' = Call("User.remove", username, <<>>, <<>>, r)
  /\ UNCHANGED <<companies, jobs, jobIdSeq, suite>>

UserFindAllCall ==
  /\ Idle /\ suite \in {"users", "lists", "creates"}
  /\ \E ord \in JoinOrders :
       LET rows == LeftJoinOrdered(SortedUsernames, ord)
       IN  last' = [Call("User.findAll", Undefined, <<>>, <<>>, UserFindAll(rows))
                      EXCEPT !.data = rows]
  /\ UNCHANGED <<storage, suite>>

UserGetCall ==
  /\ Idle /\ suite \in {"users", "creates"}
  /\ \E username \in Usernames :
       \E order \in Orders(ApplicationsOf(username)) :
         LET rows == UserJoinRows(username, order)
         IN  last' = [Call("User.get", username, <<>>, <<>>, UserGet(username, rows))
                        EXCEPT !.data = rows]
  /\ UNCHANGED <<storage, suite>>

CompanyGetCall ==
  /\ Idle /\ suite = "companies"
  /\ \E handle \in Handles :
       last' = Call("Company.get", handle, <<>>, <<>>, CompanyGet(handle))
  /\ UNCHANGED <<storage, suite>>

JobGetCall ==
  /\ Idle /\ suite = "jobs"
  /\ \E id \in JobIds :
       last' = Call("Job.get", id, <<>>, <<>>, JobGet(id))
  /\ UNCHANGED <<storage, suite>>

Init ==
  /\ InitStorage
  /\ suite \in {"companies", "jobs", "users"}
  /\ last = NoCall

Next ==
  \/ CompanyUpdateCall
  \/ CompanyRemoveCall
  \/ JobUpdateCall
  \/ JobRemoveCall
  \/ UserUpdateCall
  \/ UserRemoveCall
  \/ UserFindAllCall
  \/ UserGetCall
  \/ CompanyGetCall
  \/ JobGetCall
  \/ Return

Spec == Init /\ [][Next]_vars

----------------------------------------------------------------------------
(* The list queries *)

\* <text> ILIKE <pattern> for the texts and the %...% patterns of the model
ILike(text, pattern) ==
  <<text, pattern>> \in
    { <<Str("job1"), Str("%job%")>>, <<Str("job2"), Str("%job%")>>,
      <<Str("job-new"), Str("%job%")>>, <<Str("job1"), Str("%1%")>>,
      <<Str("C1"), Str("%c%")>>, <<Str("C2"), Str("%c%")>>,
      <<Str("C1-new"), Str("%c%")>>, <<Str("C1"), Str("%1%")>>,
      <<Str("C1-new"), Str("%1%")>> }

\* the number a NUMERIC column holds
Numeric(v) ==
  CASE v = Str("0") -> 0
    [] v = Str("1") -> 1
    [] OTHER -> 0

\* one condition of a WHERE clause, on a row
CondHolds(cond, row, params) ==
  CASE Len(cond) = 2 /\ cond[1] = "title ILIKE " -> ILike(row.title, params[PHNum(cond[2])])
    [] Len(cond) = 2 /\ cond[1] = "name ILIKE " -> ILike(row.name, params[PHNum(cond[2])])
    [] Len(cond) = 2 /\ cond[1] = "salary>=" ->
         row.salary.t = "number" /\ row.salary.n >= params[PHNum(cond[2])].n
    [] Len(cond) = 2 /\ cond[1] = "num_employees>=" ->
         row.num_employees.t = "number" /\ row.num_employees.n >= params[PHNum(cond[2])].n
    [] Len(cond) = 2 /\ cond[1] = "num_employees<=" ->
         row.num_employees.t = "number" /\ row.num_employees.n <= params[PHNum(cond[2])].n
    [] OTHER -> row.equity.t = "string" /\ Numeric(row.equity) > 0

CondOk(tableName, cond) ==
  \/ /\ Len(cond) = 2
     /\ cond[1] \in (IF tableName = "jobs"
                       THEN {"title ILIKE ", "salary>="}
                       ELSE {"name ILIKE ", "num_employees>=", "num_employees<="})
     /\ IsPH(cond[2])
  \/ tableName = "jobs" /\ cond = <<"equity>'0'">>

\* the conditions of an optional WHERE clause; <<>> when there is no clause
WhereConds(where) == IF Len(where) = 0 THEN <<>> ELSE Split(Tail(where), " AND ")

WhereOk(tableName, where) ==
  \/ Len(where) = 0
  \/ /\ where[1] = "WHERE "
     /\ \A i \in 1..Len(WhereConds(where)) : CondOk(tableName, WhereConds(where)[i])

RECURSIVE SortBy(_, _)
\* the members of a set of keys in the order of a list of all keys
SortBy(order, keys) ==
  IF Len(order) = 0 THEN <<>>
  ELSE (IF Head(order) \in keys THEN <<Head(order)>> ELSE <<>>) \o SortBy(Tail(order), keys)

JobSelect == "SELECT id, title, salary, equity, company_handle FROM jobs "

JobSelectList ==
  { <<"id", "id">>, <<"title", "title">>, <<"salary", "salary">>,
    <<"equity", "equity">>, <<"company_handle", "company_handle">> }

\* the job ids of the model in ORDER BY id order
SortedJobIds == << Num(0), Num(1), Num(2) >>

\* SELECT ... FROM jobs [WHERE ...] ORDER BY id
DbSelectJobs(text, params) ==
  LET n == Len(text)
      where == SubSeq(text, 2, n - 1)
      wellFormed == /\ n >= 2
                    /\ text[1] = JobSelect
                    /\ text[n] = " ORDER BY id"
                    /\ WhereOk("jobs", where)
      conds == WhereConds(where)
      hits == { id \in DOMAIN jobs :
                  \A i \in 1..Len(conds) : CondHolds(conds[i], jobs[id], params) }
      ids == SortBy(SortedJobIds, hits)
  IN  IF ~(wellFormed /\ Bound(text, params))
        THEN [error |-> TRUE, rows |-> <<>>]
        ELSE [error |-> FALSE,
              rows |-> [i \in 1..Len(ids) |->
                          Project("jobs", ids[i], jobs[ids[i]], JobSelectList)]]

\* the rows of companies as the query orders them: ORDER BY name
SortedCompanyNames == << Str("C1"), Str("C1-new"), Str("C2") >>

\* SELECT handle, name, description, [num_employees,] logo_url FROM companies
\* [WHERE ...] ORDER BY name
DbSelectCompanies(text, params) ==
  LET n == Len(text)
      withEmployees == n >= 2 /\ text[2] = "num_employees AS \"numEmployees\","
      from == IF withEmployees THEN 3 ELSE 2
      where == SubSeq(text, from + 1, n - 1)
      wellFormed == /\ n >= from + 1
                    /\ text[1] = "SELECT handle, name, description, "
                    /\ text[from] = " logo_url AS \"logoUrl\" FROM companies "
                    /\ text[n] = " ORDER BY name"
                    /\ WhereOk("companies", where)
      conds == WhereConds(where)
      hits == { h \in DOMAIN companies :
                  \A i \in 1..Len(conds) : CondHolds(conds[i], companies[h], params) }
      names == SortBy(SortedCompanyNames, { companies[h].name : h \in hits })
      list == { <<"handle", "handle">>, <<"name", "name">>,
                <<"description", "description">>, <<"logo_url", "logoUrl">> }
                \cup (IF withEmployees THEN { <<"num_employees", "numEmployees">> } ELSE {})
      \* rows of equal name come in either order; the model keeps names distinct
      RowOf(name) == CHOOSE h \in hits : companies[h].name = name
  IN  IF ~(wellFormed /\ Bound(text, params))
        THEN [error |-> TRUE, rows |-> <<>>]
        ELSE [error |-> FALSE,
              rows |-> [i \in 1..Len(names) |->
                          Project("companies", RowOf(names[i]),
                                  companies[RowOf(names[i])], list)]]

\* a JavaScript array where undefined may stand instead
Arr(items) == [t |-> "array", s |-> "", n |-> 0, items |-> items]

\* the parameters db.query binds: none when it is handed undefined
Items(params) == IF params.t = "array" THEN params.items ELSE <<>>

\* filtersObj.filters of a filtersObj that has the property
Filters(filtersObj) == filtersObj[CHOOSE i \in 1..Len(filtersObj) : filtersObj[i].k = "filters"].v

\* the guard of both findAll methods
HasFilters(filtersObj) ==
  Len(ObjectKeys(filtersObj)) > 0 /\ Len(ObjectKeys(Filters(filtersObj))) > 0

RECURSIVE CompanyFilterLoop(_, _, _)
\* for (const [idx, key] of filterKeys.entries()), from TLA+ index i on
CompanyFilterLoop(filterKeys, i, sqlWhereCondArr) ==
  IF i > Len(filterKeys) THEN sqlWhereCondArr
  ELSE
    LET key == filterKeys[i]
        idx == i - 1
        a1 == IF key = "nameLike"
                THEN Append(sqlWhereCondArr, <<"name ILIKE ", PH(idx + 1)>>)
                ELSE sqlWhereCondArr
        a2 == IF key = "minEmployees"
                THEN Append(a1, <<"num_employees>=", PH(idx + 1)>>)
                ELSE a1
        a3 == IF key = "maxEmployees"
                THEN Append(a2, <<"num_employees<=", PH(idx + 1)>>)
                ELSE a2
    IN  CompanyFilterLoop(filterKeys, i + 1, a3)

Includes_OnlyFirst(arr, x) == Len(arr) > 0 /\ arr[1] = x

\* Includes(arr, x): arr.includes(x)
Includes(arr, x) == \E i \in 1..Len(arr) : arr[i] = x

CompanyFindAllQuery_NoOrderBy(filtersObj) ==
  LET filtered == HasFilters(filtersObj)
      filterKeys == ObjectKeys(Filters(filtersObj))
      filterVals == IF filtered THEN Arr(ObjectValues(Filters(filtersObj))) ELSE Undefined
      sqlWhereCondStr ==
        IF filtered
          THEN <<"WHERE ">> \o Join(CompanyFilterLoop(filterKeys, 1, <<>>), " AND ")
          ELSE <<>>
      sqlNumEmployeesSelectArg ==
        IF filtered /\ (Includes(filterKeys, "minEmployees")
                          \/ Includes(filterKeys, "maxEmployees"))
          THEN <<"num_employees AS \"numEmployees\",">>
          ELSE <<>>
  IN  Query(<<"SELECT handle, name, description, ">> \o sqlNumEmployeesSelectArg
              \o <<" logo_url AS \"logoUrl\" FROM companies ">> \o sqlWhereCondStr,
            filterVals)

\* the statement Company.findAll sends, with the parameters it binds
CompanyFindAllQuery(filtersObj) ==
  LET filtered == HasFilters(filtersObj)
      filterKeys == ObjectKeys(Filters(filtersObj))
      filterVals == IF filtered THEN Arr(ObjectValues(Filters(filtersObj))) ELSE Undefined
      sqlWhereCondStr ==
        IF filtered
          THEN <<"WHERE ">> \o Join(CompanyFilterLoop(filterKeys, 1, <<>>), " AND ")
          ELSE <<>>
      sqlNumEmployeesSelectArg ==
        IF filtered /\ (Includes(filterKeys, "minEmployees")
                          \/ Includes(filterKeys, "maxEmployees"))
          THEN <<"num_employees AS \"numEmployees\",">>
          ELSE <<>>
  IN  Query(<<"SELECT handle, name, description, ">> \o sqlNumEmployeesSelectArg
              \o <<" logo_url AS \"logoUrl\" FROM companies ">> \o sqlWhereCondStr
              \o <<" ORDER BY name">>,
            filterVals)

CompanyFindAll(filtersObj) ==
  LET q == CompanyFindAllQuery(filtersObj)
      companiesRes == DbSelectCompanies(q.text, Items(q.params))
  IN  IF companiesRes.error THEN StorageError(<<q>>, companies)
      ELSE Returned(companiesRes.rows, <<q>>, companies)

RECURSIVE JobFilterLoop(_, _, _, _, _)
\* for (const [idx, key] of filterKeys.entries()), from TLA+ index i on;
\* returns the conditions and the values pushed
JobFilterLoop(filterKeys, filterVals, i, sqlWhereCondArr, values) ==
  IF i > Len(filterKeys) THEN [sqlWhereCondArr |-> sqlWhereCondArr, values |-> values]
  ELSE
    LET key == filterKeys[i]
        idx == i - 1
        valIdx == IndexOf(filterKeys, key)
        a1 == IF key = "titleLike"
                THEN Append(sqlWhereCondArr, <<"title ILIKE ", PH(idx + 1)>>)
                ELSE sqlWhereCondArr
        v1 == IF key = "titleLike" THEN Append(values, filterVals[valIdx + 1]) ELSE values
        a2 == IF key = "minSalary"
                THEN Append(a1, <<"salary>=", PH(idx + 1)>>)
                ELSE a1
        v2 == IF key = "minSalary" THEN Append(v1, filterVals[valIdx + 1]) ELSE v1
        a3 == IF key = "hasEquity" /\ Truthy(filterVals[valIdx + 1])
                THEN Append(a2, <<"equity>'0'">>)
                ELSE a2
    IN  JobFilterLoop(filterKeys, filterVals, i + 1, a3, v2)

\* a plausible slip: the filter values are bound as in Company.findAll
JobFindAllQuery_BindsFilterVals(filtersObj) ==
  LET filtered == HasFilters(filtersObj)
      filterKeys == ObjectKeys(Filters(filtersObj))
      filterVals == ObjectValues(Filters(filtersObj))
      loop == IF filtered
                THEN JobFilterLoop(filterKeys, filterVals, 1, <<>>, <<>>)
                ELSE [sqlWhereCondArr |-> <<>>, values |-> <<>>]
      sqlWhereCondStr ==
        IF filtered THEN <<"WHERE ">> \o Join(loop.sqlWhereCondArr, " AND ") ELSE <<>>
  IN  Query(<<JobSelect>> \o sqlWhereCondStr \o <<" ORDER BY id">>,
            IF filtered THEN Arr(filterVals) ELSE Undefined)

\* the statement Job.findAll sends, with the parameters it binds
JobFindAllQuery_KeepsValues(filtersObj) ==
  LET filtered == HasFilters(filtersObj)
      filterKeys == ObjectKeys(Filters(filtersObj))
      filterVals == ObjectValues(Filters(filtersObj))
      kept == IF last.op = "Job.findAll" THEN last.result.queries[1].params.items ELSE <<>>
      loop == IF filtered
                THEN JobFilterLoop(filterKeys, filterVals, 1, <<>>, kept)
                ELSE [sqlWhereCondArr |-> <<>>, values |-> kept]
      sqlWhereCondStr ==
        IF filtered THEN <<"WHERE ">> \o Join(loop.sqlWhereCondArr, " AND ") ELSE <<>>
  IN  Query(<<JobSelect>> \o sqlWhereCondStr \o <<" ORDER BY id">>, Arr(loop.values))

JobFindAllQuery(filtersObj) ==
  LET filtered == HasFilters(filtersObj)
      filterKeys == ObjectKeys(Filters(filtersObj))
      filterVals == ObjectValues(Filters(filtersObj))
      loop == IF filtered
                THEN JobFilterLoop(filterKeys, filterVals, 1, <<>>, <<>>)
                ELSE [sqlWhereCondArr |-> <<>>, values |-> <<>>]
      sqlWhereCondStr ==
        IF filtered THEN <<"WHERE ">> \o Join(loop.sqlWhereCondArr, " AND ") ELSE <<>>
  IN  Query(<<JobSelect>> \o sqlWhereCondStr \o <<" ORDER BY id">>, Arr(loop.values))

JobFindAll(filtersObj) ==
  LET q == JobFindAllQuery(filtersObj)
      jobsRes == DbSelectJobs(q.text, Items(q.params))
  IN  IF jobsRes.error THEN StorageError(<<q>>, jobs)
      ELSE Returned(jobsRes.rows, <<q>>, jobs)

\* the filter values the list calls are made with
FilterValues(key) ==
  CASE key = "titleLike" -> { Str("%job%"), Str("%1%") }
    [] key = "minSalary" -> { Num(0), Num(65000) }
    [] key = "hasEquity" -> { Bool(TRUE), Bool(FALSE) }
    [] key = "nameLike" -> { Str("%c%"), Str("%1%") }
    [] key = "minEmployees" -> { Num(0), Num(2) }
    [] key = "maxEmployees" -> { Num(1), Num(3) }
    [] OTHER -> { Str("%c%") }

\* {} and { filters: m } for every mapping m of the keys, in every order
FiltersObjs(keys) ==
  LET pairs == UNION { { [k |-> f, v |-> v] : v \in FilterValues(f) } : f \in keys }
      maps == { m \in UNION { [1..n -> pairs] : n \in 0..Cardinality(keys) } : IsMapping(m) }
  IN  { <<>> } \cup { << [k |-> "filters", v |-> m] >> : m \in maps }

\* the filter names each findAll tests for
JobFilterNames == {"titleLike", "minSalary", "hasEquity"}

CompanyFilterNames == {"nameLike", "minEmployees", "maxEmployees"}

\* a filter name neither of them tests for
UnknownFilterName == "name"

JobFiltersObjs == FiltersObjs(JobFilterNames \cup {UnknownFilterName})

CompanyFiltersObjs == FiltersObjs(CompanyFilterNames \cup {UnknownFilterName})

\* a list call follows a return, or at once the list call before it: the
\* same call once more, or a call with at most one filter
AfterList(filtersObj) ==
  \/ Idle
  \/ /\ last.op \in {"Job.findAll", "Company.findAll"}
     /\ IF last.data = filtersObj \/ Len(last.data) = 0 THEN TRUE
        ELSE Len(last.data[1].v) <= 1

JobFindAllCall ==
  /\ suite = "lists"
  /\ \E filtersObj \in JobFiltersObjs :
       /\ AfterList(filtersObj)
       /\ last' = Call("Job.findAll", Undefined, filtersObj, filtersObj, JobFindAll(filtersObj))
  /\ UNCHANGED <<storage, suite>>

CompanyFindAllCall ==
  /\ suite = "lists"
  /\ \E filtersObj \in CompanyFiltersObjs :
       /\ AfterList(filtersObj)
       /\ last' = Call("Company.findAll", Undefined, filtersObj, filtersObj,
                       CompanyFindAll(filtersObj))
  /\ UNCHANGED <<storage, suite>>

InitList == InitStorage /\ suite = "lists" /\ last = NoCall

NextList == JobFindAllCall \/ CompanyFindAllCall \/ UserFindAllCall \/ Return

SpecList == InitList /\ [][NextList]_vars

----------------------------------------------------------------------------
(* Claims about the list statements *)

ListOps == {"Job.findAll", "Company.findAll"}

\* a filter entry of Job.findAll that binds a parameter
EmitsParameter(entry) == entry.k \in {"titleLike", "minSalary"}

\* the filter names of a list call
FilterNames(op) == IF op = "Job.findAll" THEN JobFilterNames ELSE CompanyFilterNames

\* every key of the filters of the call is one its method tests for
Recognized(op, filtersObj) ==
  HasFilters(filtersObj) =>
    \A i \in 1..Len(Filters(filtersObj)) : Filters(filtersObj)[i].k \in FilterNames(op)

(* C1 as claimed: for every filter mapping over titleLike, minSalary and   *)
(* hasEquity, in every key order, the placeholders of the statement        *)
(* Job.findAll builds are exactly $1..$n, n the length of the values it   *)
(* binds, and $i binds the value of the i-th filter that emits a          *)
(* parameter; hasEquity consumes no number.                                *)
C1_PlaceholdersContiguous ==
  (last.op = "Job.findAll" /\ HasFilters(last.data) /\ Recognized(last.op, last.data)) =>
    LET q == last.result.queries[1]
        values == Items(q.params)
    IN  /\ Placeholders(q.text) = [i \in 1..Len(values) |-> i]
        /\ values = ObjectValues(SelectSeq(Filters(last.data), EmitsParameter))

(* C2: for every filter mapping made only of recognized keys, the          *)
(* statement Company.findAll and Job.findAll build holds as many           *)
(* placeholders as db.query is handed parameters; none of either when      *)
(* there are no filters.                                                   *)
C2_PlaceholderCountIsParameterCount ==
  (last.op \in ListOps /\ Recognized(last.op, last.data)) =>
    LET q == last.result.queries[1]
    IN  /\ Len(last.result.queries) = 1
        /\ Len(Placeholders(q.text)) = Len(Items(q.params))
        /\ (~HasFilters(last.data) =>
              Placeholders(q.text) = <<>> /\ Items(q.params) = <<>>)

C2_Witness ==
  /\ last.op = "Job.findAll"
  /\ HasFilters(last.data)
  /\ ObjectKeys(Filters(last.data)) = <<"hasEquity", "minSalary">>
  /\ Len(Placeholders(last.result.queries[1].text)) = 1
  /\ Items(last.result.queries[1].params) = << Num(65000) >>

----------------------------------------------------------------------------
(* Claims about update and remove *)

UpdateOps == {"Company.update", "Job.update", "User.update"}

RemoveOps == {"Company.remove", "Job.remove", "User.remove"}

\* the table a method works on, before the call and now
TableBefore(op) ==
  CASE op \in {"Company.update", "Company.remove"} -> last.before.companies
    [] op \in {"Job.update", "Job.remove"} -> last.before.jobs
    [] OTHER -> last.before.users

TableNow(op) ==
  CASE op \in {"Company.update", "Company.remove"} -> companies
    [] op \in {"Job.update", "Job.remove"} -> jobs
    [] OTHER -> users

TableNameOf(op) ==
  CASE op \in {"Company.update", "Company.remove"} -> "companies"
    [] op \in {"Job.update", "Job.remove"} -> "jobs"
    [] OTHER -> "users"

\* the column a data field stands for
FieldColumn(field) ==
  CASE field = "numEmployees" -> "num_employees"
    [] field = "logoUrl" -> "logo_url"
    [] field = "firstName" -> "first_name"
    [] field = "lastName" -> "last_name"
    [] field = "isAdmin" -> "is_admin"
    [] OTHER -> field

\* the fields of the record an update returns, with their columns
RecordFields(op) ==
  CASE op = "Company.update" ->
         { <<"handle", "handle">>, <<"name", "name">>, <<"description", "description">>,
           <<"num_employees", "numEmployees">>, <<"logo_url", "logoUrl">> }
    [] op = "Job.update" ->
         { <<"id", "id">>, <<"title", "title">>, <<"salary", "salary">>,
           <<"equity", "equity">>, <<"company_handle", "company_handle">> }
    [] OTHER ->
         { <<"username", "username">>, <<"first_name", "firstName">>,
           <<"last_name", "lastName">>, <<"email", "email">>, <<"is_admin", "isAdmin">> }

StorageUnchanged == Snapshot = last.before

(* C4: sqlForPartialUpdate with zero keys throws BadRequestError("No       *)
(* data") under every translation table and returns no fragment, and an   *)
(* update with empty data fails with that error before any statement is   *)
(* sent, the tables untouched.                                            *)
C4_EmptyDataRejected ==
  /\ \A class \in ModelClasses :
       LET r == sqlForPartialUpdate(<<>>, JsToSql(class))
       IN  /\ r.threw = "BadRequestError"
           /\ r.message = "No data"
           /\ "setCols" \notin DOMAIN r
  /\ (last.op \in UpdateOps /\ Len(last.data) = 0) =>
       /\ last.result.threw = "BadRequestError"
       /\ last.result.message = "No data"
       /\ last.result.queries = <<>>
       /\ StorageUnchanged

C4_Witness ==
  /\ last.op = "User.update"
  /\ last.data = <<>>
  /\ last.key \in DOMAIN users
  /\ last.result.threw = "BadRequestError"
  /\ last.result.queries = <<>>

(* C7: for non-empty data with k SET parameters, the statement an update   *)
(* sends numbers its SET placeholders $1..$k, its key predicate uses      *)
(* $(k+1), and its parameter list is the k SET values followed by the     *)
(* key.                                                                    *)
C7_KeyIsLastPlaceholder ==
  (last.op \in UpdateOps /\ Len(last.data) > 0) =>
    /\ Len(last.result.queries) = 1
    /\ LET q == last.result.queries[1]
           n == Len(q.text)
           k == Len(last.data)
       IN  /\ n >= 4
           /\ q.text[n - 2] = " WHERE " \o TableKey(TableNameOf(last.op)) \o " = "
           /\ q.text[n - 1] = PH(k + 1)
           /\ Placeholders(SubSeq(q.text, 1, n - 3)) = [i \in 1..k |-> i]
           /\ Len(q.params) = k + 1
           /\ q.params[k + 1] = last.key
           /\ SubSeq(q.params, 1, k) = ObjectValues(last.dataAfter)

C7_Witness ==
  /\ last.op = "User.update"
  /\ Len(last.data) = 2
  /\ last.key = Str("u1")
  /\ last.result.threw = "none"
  /\ last.result.queries[1].params =
       << Str("New"), Hash(Str("new-password")), Str("u1") >>

(* C8 as claimed: update or remove with a key that is not stored throws    *)
(* NotFoundError and leaves every table unchanged.                         *)
C8_AbsentKeyNotFound ==
  (last.op \in UpdateOps \cup RemoveOps /\ last.key \notin DOMAIN TableBefore(last.op)) =>
    /\ last.result.threw = "NotFoundError"
    /\ StorageUnchanged

(* C8 as amended: remove, and update with non-empty data, called with a    *)
(* key that is not stored throw NotFoundError and leave every table        *)
(* unchanged; update with empty data throws BadRequestError before the key *)
(* is looked up, the tables unchanged too.  Neither returns normally.      *)
C8_AbsentKeyNotFoundUnlessEmptyData ==
  (last.op \in UpdateOps \cup RemoveOps /\ last.key \notin DOMAIN TableBefore(last.op)) =>
    /\ last.result.threw =
         (IF last.op \in UpdateOps /\ Len(last.data) = 0
            THEN "BadRequestError" ELSE "NotFoundError")
    /\ StorageUnchanged

C8_Witness ==
  /\ last.op = "Job.remove"
  /\ last.key = Num(1)
  /\ Num(1) \in DOMAIN InitJobs
  /\ Num(1) \notin DOMAIN last.before.jobs
  /\ last.result.threw = "NotFoundError"

(* C9: a successful update changes only the columns named in data on the   *)
(* row with the key: the other columns of the row, the key, every other    *)
(* row and every other table are as before, and the returned record is    *)
(* the row as it is after the update, under the field names the method    *)
(* returns (every column; for users every column but password).           *)
C9_UpdateFrame ==
  (last.op \in UpdateOps /\ last.result.threw = "none") =>
    LET op == last.op
        before == TableBefore(op)
        now == TableNow(op)
        named == { FieldColumn(last.data[i].k) : i \in 1..Len(last.data) }
    IN  /\ last.key \in DOMAIN before
        /\ DOMAIN now = DOMAIN before
        /\ \A c \in DOMAIN before[last.key] \ named :
             now[last.key][c] = before[last.key][c]
        /\ \A other \in DOMAIN before \ {last.key} : now[other] = before[other]
        /\ [last.before EXCEPT ![TableNameOf(op)] = now] = Snapshot
        /\ DOMAIN last.result.ret = { f[2] : f \in RecordFields(op) }
        /\ \A f \in RecordFields(op) :
             last.result.ret[f[2]] =
               ColumnValue(TableNameOf(op), last.key, now[last.key], f[1])

C9_Witness ==
  /\ last.op = "Company.update"
  /\ last.key = Str("c1")
  /\ ObjectKeys(last.data) = <<"logoUrl", "name">>
  /\ last.result.threw = "none"
  /\ Str("c2") \in DOMAIN companies
  /\ companies[Str("c1")].name # last.before.companies[Str("c1")].name
  /\ last.result.ret.name = Str("C1-new")
  /\ last.result.ret.description = Str("Desc1")

(* C10 as claimed: in User.findAll and User.get a joined row whose job_id  *)
(* is null contributes nothing to jobs, so a user without applications is  *)
(* returned with jobs empty.                                               *)
C10_NullRowContributesNothing ==
  /\ (last.op = "User.findAll" /\ last.result.threw = "none") =>
       \A i \in 1..Len(last.result.ret) :
         LET entity == last.result.ret[i]
         IN  /\ \A j \in 1..Len(entity.jobs) : entity.jobs[j] # Null
             /\ (AppliedJobs(entity.username) = {} => entity.jobs = <<>>)
  /\ (last.op = "User.get" /\ last.result.threw = "none") =>
       /\ \A j \in 1..Len(last.result.ret.jobs) : last.result.ret.jobs[j] # Null
       /\ (AppliedJobs(last.key) = {} => last.result.ret.jobs = <<>>)

----------------------------------------------------------------------------
(* Claims about the aggregation of joined rows *)

FoundAll == last.op = "User.findAll" /\ last.result.threw = "none"

\* the job_id values of the joined rows of a username, in row order
RowJobIds(rows, username) ==
  LET mine == SelectSeq(rows, LAMBDA r : r.username = username)
  IN  [i \in 1..Len(mine) |-> mine[i].job_id]

(* C11: every entity User.findAll emits holds its own copy of the jobs     *)
(* list.  No entity's jobs is the accumulator array or the array of        *)
(* another entity; after all the resets of the accumulator each entity's   *)
(* list still holds the job_id values of its own rows; and a push onto, or *)
(* a truncation of, the list of one entity leaves the list of every other  *)
(* entity as it was.                                                       *)
C11_EntitiesOwnTheirJobs ==
  FoundAll =>
    LET ents == last.result.objects.allUsers
        heap == last.result.objects.heap
    IN  \A i \in 1..Len(ents) :
          /\ ents[i].jobs # JobsRef
          /\ heap[ents[i].jobs] = RowJobIds(last.data, ents[i].username)
          /\ last.result.ret[i].jobs = RowJobIds(last.data, ents[i].username)
          /\ \A j \in 1..Len(ents) :
               j # i =>
                 /\ ents[j].jobs # ents[i].jobs
                 /\ Push(heap, ents[j].jobs, Num(0))[ents[i].jobs] = heap[ents[i].jobs]
                 /\ Truncate(heap, ents[j].jobs)[ents[i].jobs] = heap[ents[i].jobs]

\* two entities were emitted, the first with two jobs: the accumulator was
\* reset after it, and filled again for the second
C11_Witness ==
  /\ FoundAll
  /\ Len(last.result.ret) = 2
  /\ Len(last.result.ret[1].jobs) = 2
  /\ Len(last.result.ret[2].jobs) = 1
  /\ last.result.objects.heap[JobsRef] = <<>>

----------------------------------------------------------------------------
(* Claims about get by key *)

GetOps == {"User.get", "Company.get", "Job.get"}

\* the table a get reads
GetTable(op) ==
  CASE op = "Company.get" -> companies
    [] op = "Job.get" -> jobs
    [] OTHER -> users

(* C12: a get by key (User.get, Company.get, Job.get) throws NotFoundError *)
(* exactly when the key is not stored, which is when its query returns no  *)
(* row; for a stored key, a user without applications (one joined row)     *)
(* included, it returns an entity and throws nothing.                      *)
C12_GetThrowsIffAbsent ==
  last.op \in GetOps =>
    LET stored == last.key \in DOMAIN GetTable(last.op)
    IN  /\ (last.result.threw = "NotFoundError") <=> ~stored
        /\ stored <=> (last.result.threw = "none")
        /\ last.result.threw = "none" => last.result.ret # Undefined
        /\ last.op = "User.get" =>
             /\ (Len(last.data) = 0) <=> ~stored
             /\ (stored /\ AppliedJobs(last.key) = {}) =>
                  (Len(last.data) = 1 /\ last.result.ret.username = last.key)

\* a get of a stored user without applications has returned that user
C12_Witness ==
  /\ last.op = "User.get"
  /\ last.key = Str("u2")
  /\ AppliedJobs(last.key) = {}
  /\ last.result.threw = "none"
  /\ last.result.ret.email = Str("user2@user.com")

----------------------------------------------------------------------------
(* Claims about the list calls *)

\* filtersObj with the entry of key taken out of its filters
WithoutFilter(filtersObj, key) ==
  << [k |-> "filters",
      v |-> SelectSeq(Filters(filtersObj), LAMBDA e : e.k # key)] >>

HasEquityFalse(filtersObj) ==
  /\ Len(filtersObj) > 0
  /\ HasKey(Filters(filtersObj), "hasEquity")
  /\ Get(Filters(filtersObj), "hasEquity") = Bool(FALSE)

(* C13 as claimed: Job.findAll with hasEquity false behaves as if the      *)
(* hasEquity key were absent: whatever the other filters and the key       *)
(* order, the call succeeds and returns the jobs the call without          *)
(* hasEquity returns.                                                      *)
C13_HasEquityFalseIsAbsent ==
  (last.op = "Job.findAll" /\ HasEquityFalse(last.data)) =>
    LET without == JobFindAll(WithoutFilter(last.data, "hasEquity"))
    IN  /\ last.result.threw = "none"
        /\ without.threw = "none"
        /\ last.result.ret = without.ret

\* the statement holds the WHERE keyword
HasWhere(text) == \E i \in 1..Len(text) : text[i] = "WHERE "

\* the predicates the filter loop of a list call emits
EmittedPredicates(op, filtersObj) ==
  IF ~HasFilters(filtersObj) THEN <<>>
  ELSE IF op = "Job.findAll"
    THEN JobFilterLoop(ObjectKeys(Filters(filtersObj)), ObjectValues(Filters(filtersObj)),
                       1, <<>>, <<>>).sqlWhereCondArr
  ELSE CompanyFilterLoop(ObjectKeys(Filters(filtersObj)), 1, <<>>)

\* the list statement without its WHERE clause
SelectOrderBy(text) ==
  SelectSeq(text, LAMBDA tok : tok = text[1] \/ tok = text[Len(text)]
                                 \/ tok = "num_employees AS \"numEmployees\","
                                 \/ tok = " logo_url AS \"logoUrl\" FROM companies ")

(* C14 as claimed: the statement Job.findAll and Company.findAll assemble  *)
(* holds the WHERE keyword if and only if at least one predicate was       *)
(* emitted; with no filter, or when no entry emits a predicate, it has no  *)
(* WHERE clause and is SELECT ... FROM ... ORDER BY ....                   *)
C14_WhereIffPredicate ==
  last.op \in ListOps =>
    LET text == last.result.queries[1].text
        emitted == EmittedPredicates(last.op, last.data)
    IN  /\ HasWhere(text) <=> (Len(emitted) > 0)
        /\ (Len(emitted) = 0 => text = SelectOrderBy(text))

(* C15 as claimed: a filter key outside the enumerated set that reaches    *)
(* Company.findAll or Job.findAll makes the call fail with an error; the   *)
(* query never runs without that predicate.                                *)
C15_UnknownFilterKeyFails ==
  (last.op \in ListOps /\ ~Recognized(last.op, last.data)) =>
    last.result.threw # "none"

\* a stored row satisfies one filter entry
SatisfiesFilter(row, entry) ==
  CASE entry.k = "nameLike" -> ILike(row.name, entry.v)
    [] entry.k = "minEmployees" ->
         row.num_employees.t = "number" /\ row.num_employees.n >= entry.v.n
    [] entry.k = "maxEmployees" ->
         row.num_employees.t = "number" /\ row.num_employees.n <= entry.v.n
    [] entry.k = "titleLike" -> ILike(row.title, entry.v)
    [] entry.k = "minSalary" -> row.salary.t = "number" /\ row.salary.n >= entry.v.n
    [] entry.k = "hasEquity" -> (entry.v = Bool(TRUE) => Numeric(row.equity) > 0)
    [] OTHER -> TRUE

\* the keys of the stored rows that satisfy every filter of the call
Satisfying(op, filtersObj) ==
  LET table == IF op = "Job.findAll" THEN jobs ELSE companies
      entries == IF HasFilters(filtersObj) THEN Filters(filtersObj) ELSE <<>>
  IN  { key \in DOMAIN table :
          \A i \in 1..Len(entries) : SatisfiesFilter(table[key], entries[i]) }

\* the keys of the rows a list call returned
ReturnedKeys(op, ret) ==
  { IF op = "Job.findAll" THEN ret[i].id ELSE ret[i].handle : i \in 1..Len(ret) }

(* C16 as claimed: the list calls return exactly the stored rows that      *)
(* satisfy the conjunction of the filters given, each row once: a company  *)
(* iff its name matches nameLike, num_employees >= minEmployees and        *)
(* num_employees <= maxEmployees; a job iff its title matches titleLike,   *)
(* salary >= minSalary and, when hasEquity is true, equity > 0; every row  *)
(* when there is no filter.                                                *)
C16_ReturnsExactlyTheMatches ==
  (last.op \in ListOps /\ Recognized(last.op, last.data)) =>
    /\ last.result.threw = "none"
    /\ ReturnedKeys(last.op, last.result.ret) = Satisfying(last.op, last.data)
    /\ Len(last.result.ret) = Cardinality(Satisfying(last.op, last.data))

\* the place of x in a sequence that holds it
Position(seq, x) == CHOOSE i \in 1..Len(seq) : seq[i] = x

\* the sort keys of a sequence are in the order of `sorted`, none twice
InOrder(keys, sorted) ==
  \A i, j \in 1..Len(keys) : i < j => Position(sorted, keys[i]) < Position(sorted, keys[j])

\* rows of one username are next to each other
Contiguous(rows) ==
  \A i, j, k \in 1..Len(rows) :
    (i < j /\ j < k /\ rows[i].username = rows[k].username) =>
      rows[j].username = rows[i].username

(* C17: whatever the filters, the list statement ends with the ordering of *)
(* its entity (companies by name, jobs by id, users by username), so the   *)
(* sequence returned is sorted by that column and, for User.findAll, the   *)
(* joined rows of one username are contiguous in the rows aggregated.      *)
C17_FixedOrdering ==
  LET text == last.result.queries[1].text
      ret == last.result.ret
  IN  /\ last.op = "Company.findAll" =>
           /\ text[Len(text)] = " ORDER BY name"
           /\ last.result.threw = "none" =>
                InOrder([i \in 1..Len(ret) |-> ret[i].name], SortedCompanyNames)
      /\ last.op = "Job.findAll" =>
           /\ text[Len(text)] = " ORDER BY id"
           /\ last.result.threw = "none" =>
                \A i, j \in 1..Len(ret) : i < j => ret[i].id.n < ret[j].id.n
      /\ last.op = "User.findAll" =>
           /\ text[Len(text)] = " ORDER BY users.username"
           /\ Contiguous(last.data)
           /\ \A i, j \in 1..Len(last.data) :
                i < j => Position(SortedUsernames, last.data[i].username)
                           <= Position(SortedUsernames, last.data[j].username)
           /\ InOrder([i \in 1..Len(ret) |-> ret[i].username], SortedUsernames)

\* a filtered Company.findAll has returned both companies, C1 first
C17_Witness ==
  /\ last.op = "Company.findAll"
  /\ HasFilters(last.data)
  /\ HasWhere(last.result.queries[1].text)
  /\ last.result.threw = "none"
  /\ Len(last.result.ret) = 2
  /\ last.result.ret[1].name = Str("C1")
  /\ last.result.ret[2].name = Str("C2")

\* the projection of the statement names the employee count
SelectsNumEmployees(text) ==
  \E i \in 1..Len(text) : text[i] = "num_employees AS \"numEmployees\","

CompanyJobs(handle) ==
  { [id |-> id, title |-> jobs[id].title, salary |-> jobs[id].salary,
     equity |-> jobs[id].equity] :
      id \in { j \in DOMAIN jobs : jobs[j].company_handle = handle } }

(* C19 as claimed: Company.get(handle) of a stored company returns         *)
(* { handle, name, description, numEmployees, logoUrl, jobs }, jobs being  *)
(* the list of that company's jobs (id, title, salary, equity each), an    *)
(* empty array for a company without jobs.                                 *)
C19_CompanyGetListsJobs ==
  (last.op = "Company.get" /\ last.key \in DOMAIN companies) =>
    /\ last.result.threw = "none"
    /\ DOMAIN last.result.ret =
         {"handle", "name", "description", "numEmployees", "logoUrl", "jobs"}
    /\ last.result.ret.handle = last.key
    /\ last.result.ret.name = companies[last.key].name
    /\ last.result.ret.description = companies[last.key].description
    /\ last.result.ret.numEmployees = companies[last.key].num_employees
    /\ last.result.ret.logoUrl = companies[last.key].logo_url
    /\ { last.result.ret.jobs[i] : i \in 1..Len(last.result.ret.jobs) }
         = CompanyJobs(last.key)
    /\ Len(last.result.ret.jobs) = Cardinality(CompanyJobs(last.key))

----------------------------------------------------------------------------
(* create of companies and jobs *)

CompanyInsert ==
  "INSERT INTO companies (handle, name, description, num_employees, logo_url) VALUES ("

JobInsert == "INSERT INTO jobs (title, salary, equity, company_handle) VALUES ("

UserInsert ==
  "INSERT INTO users (username, password, first_name, last_name, email, is_admin) VALUES ("

\* the column list of an INSERT
InsertCols(insert) ==
  CASE insert = CompanyInsert -> <<"handle", "name", "description", "num_employees", "logo_url">>
    [] insert = JobInsert -> <<"title", "salary", "equity", "company_handle">>
    [] insert = UserInsert ->
         <<"username", "password", "first_name", "last_name", "email", "is_admin">>
    [] OTHER -> <<>>

\* jobs(company_handle FK): the company of a job is a stored company
CompanyHandleStored(row) == row.company_handle \in DOMAIN companies

\* VALUES ($1, ..., $n)
ValuesList(n) == Join([i \in 1..n |-> << PH(i) >>], ", ") \o << ")" >>

\* INSERT INTO <table> (<columns>) VALUES ($1, ...) RETURNING ...: the key of
\* a job is the next value of the sequence of jobs.id, which is consumed
\* whether or not the row is accepted; a stored key, or a company_handle
\* that is not a stored company, is an error
DbInsert(tableName, table, text, params) ==
  LET n == Len(text)
      cols == InsertCols(text[1])
      phs == Placeholders(text)
      wellFormed == /\ n >= 3
                    /\ Len(cols) > 0
                    /\ Len(phs) = Len(cols)
                    /\ text[n] \in ReturningClauses \cup {" RETURNING *"}
      Value(c) == params[phs[Position(cols, c)]]
      key == IF tableName = "jobs" THEN Num(jobIdSeq + 1) ELSE Value(TableKey(tableName))
      row == [c \in TableCols(tableName) |-> StoreAs(c, Value(c))]
      accepted == /\ key \notin DOMAIN table
                  /\ tableName = "jobs" => CompanyHandleStored(row)
      list == IF text[n] = " RETURNING *" THEN JobSelectList ELSE ReturningList(text[n])
  IN  IF ~(wellFormed /\ Bound(text, params))
        THEN [error |-> TRUE, table |-> table, rows |-> <<>>, nextval |-> FALSE]
      ELSE IF ~accepted
        THEN [error |-> TRUE, table |-> table, rows |-> <<>>, nextval |-> tableName = "jobs"]
      ELSE [error |-> FALSE,
            table |-> (key :> row) @@ table,
            rows |-> << Project(tableName, key, row, list) >>,
            nextval |-> tableName = "jobs"]

CompanyCreate_NoDuplicateCheck(data) ==
  LET handle == Get(data, "handle")
      q2 == Query(<<CompanyInsert>> \o ValuesList(5) \o <<CompanyReturning>>,
                  << handle, Get(data, "name"), Get(data, "description"),
                     Get(data, "numEmployees"), Get(data, "logoUrl") >>)
      result == DbInsert("companies", companies, q2.text, q2.params)
  IN  IF result.error THEN StorageError(<<q2>>, companies)
      ELSE Returned(result.rows[1], <<q2>>, result.table)

CompanyCreate(data) ==
  LET handle == Get(data, "handle")
      q1 == Query(<<"SELECT handle FROM companies WHERE handle = ", "$1">>, <<handle>>)
      duplicateCheck == DbSelectByKey("companies", companies, q1.text, q1.params)
      q2 == Query(<<CompanyInsert>> \o ValuesList(5) \o <<CompanyReturning>>,
                  << handle, Get(data, "name"), Get(data, "description"),
                     Get(data, "numEmployees"), Get(data, "logoUrl") >>)
      result == DbInsert("companies", companies, q2.text, q2.params)
  IN  IF duplicateCheck.error THEN StorageError(<<q1>>, companies)
      ELSE IF Len(duplicateCheck.rows) > 0
        THEN Thrown("BadRequestError", "Duplicate company: " \o ToText(handle),
                    <<q1>>, companies)
      ELSE IF result.error THEN StorageError(<<q1, q2>>, companies)
      ELSE Returned(result.rows[1], <<q1, q2>>, result.table)

\* Job.create; nextval tells whether the INSERT drew an id from the sequence
JobCreate(data) ==
  LET q == Query(<<JobInsert>> \o ValuesList(4) \o <<" RETURNING *">>,
                 << Get(data, "title"), Get(data, "salary"),
                    Get(data, "equity"), Get(data, "company_handle") >>)
      result == DbInsert("jobs", jobs, q.text, q.params)
  IN  (IF result.error THEN StorageError(<<q>>, jobs)
       ELSE Returned(result.rows[1], <<q>>, result.table))
      @@ [nextval |-> result.nextval]

UserRegister(data) ==
  LET username == Get(data, "username")
      q1 == Query(<<"SELECT username FROM users WHERE username = ", "$1">>, <<username>>)
      duplicateCheck == DbSelectByKey("users", users, q1.text, q1.params)
      hashedPassword == Hash(Get(data, "password"))
      q2 == Query(<<UserInsert>> \o ValuesList(6) \o <<UserReturning>>,
                  << username, hashedPassword, Get(data, "firstName"),
                     Get(data, "lastName"), Get(data, "email"), Get(data, "isAdmin") >>)
      result == DbInsert("users", users, q2.text, q2.params)
  IN  IF duplicateCheck.error THEN StorageError(<<q1>>, users)
      ELSE IF Len(duplicateCheck.rows) > 0
        THEN Thrown("BadRequestError", "Duplicate username: " \o ToText(username),
                    <<q1>>, users)
      ELSE IF result.error THEN StorageError(<<q1, q2>>, users)
      ELSE Returned(result.rows[1], <<q1, q2>>, result.table)

ApplicationSelect == "SELECT username, job_id FROM applications WHERE username = "

ApplicationInsert == "INSERT INTO applications (username, job_id) VALUES ("

\* SELECT username, job_id FROM applications WHERE username = $1 and job_id = $2
DbSelectApplications(table, text, params) ==
  LET wellFormed == /\ Len(text) = 4
                    /\ text[1] = ApplicationSelect
                    /\ IsPH(text[2])
                    /\ text[3] = " and job_id = "
                    /\ IsPH(text[4])
      found == { a \in table : /\ a[1] = params[PHNum(text[2])]
                               /\ a[2] = params[PHNum(text[4])] }
  IN  IF ~(wellFormed /\ Bound(text, params))
        THEN [error |-> TRUE, rows |-> <<>>]
      ELSE [error |-> FALSE,
            rows |-> [i \in 1..Cardinality(found) |->
                        LET a == CHOOSE b \in found : b[3] = i
                        IN  [username |-> a[1], job_id |-> a[2]]]]

\* applications(username FK, job_id FK): the user and the job of an
\* application are stored
ApplicationKeysStored(username, jobId) ==
  username \in DOMAIN users /\ jobId \in DOMAIN jobs

\* INSERT INTO applications (username, job_id) VALUES ($1, $2) RETURNING
\* username, job_id: the table has no key, so a pair it already holds is
\* stored once more
DbInsertApplication(table, text, params) ==
  LET wellFormed == /\ Len(text) = 5
                    /\ text[1] = ApplicationInsert
                    /\ IsPH(text[2]) /\ text[3] = ", " /\ IsPH(text[4])
                    /\ text[5] = ") RETURNING username, job_id"
      username == params[PHNum(text[2])]
      jobId == params[PHNum(text[4])]
      held == { a \in table : a[1] = username /\ a[2] = jobId }
      row == ApplicationRow(username, jobId, Cardinality(held) + 1)
  IN  IF ~(wellFormed /\ Bound(text, params))
        THEN [error |-> TRUE, table |-> table, rows |-> <<>>]
      ELSE IF ~ApplicationKeysStored(username, jobId)
        THEN [error |-> TRUE, table |-> table, rows |-> <<>>]
      ELSE [error |-> FALSE,
            table |-> table \cup {row},
            rows |-> << [username |-> username, job_id |-> jobId] >>]

UserApplyForJob_NoDuplicateCheck(username, jobId) ==
  LET q1 == Query(<<"SELECT username FROM users WHERE username = ", "$1">>, <<username>>)
      userCheck == DbSelectByKey("users", users, q1.text, q1.params)
      q2 == Query(<<"SELECT id FROM jobs WHERE id = ", "$1">>, <<jobId>>)
      jobCheck == DbSelectByKey("jobs", jobs, q2.text, q2.params)
      q4 == Query(<<ApplicationInsert, "$1", ", ", "$2", ") RETURNING username, job_id">>,
                  <<username, jobId>>)
      result == DbInsertApplication(applications, q4.text, q4.params)
  IN  IF userCheck.error THEN StorageError(<<q1>>, applications)
      ELSE IF Len(userCheck.rows) = 0
        THEN Thrown("BadRequestError", "User not found", <<q1>>, applications)
      ELSE IF jobCheck.error THEN StorageError(<<q1, q2>>, applications)
      ELSE IF Len(jobCheck.rows) = 0
        THEN Thrown("BadRequestError", "Job not found", <<q1, q2>>, applications)
      ELSE IF result.error THEN StorageError(<<q1, q2, q4>>, applications)
      ELSE Returned([applied |-> jobId], <<q1, q2, q4>>, result.table)

UserApplyForJob(username, jobId) ==
  LET q1 == Query(<<"SELECT username FROM users WHERE username = ", "$1">>, <<username>>)
      userCheck == DbSelectByKey("users", users, q1.text, q1.params)
      q2 == Query(<<"SELECT id FROM jobs WHERE id = ", "$1">>, <<jobId>>)
      jobCheck == DbSelectByKey("jobs", jobs, q2.text, q2.params)
      q3 == Query(<<ApplicationSelect, "$1", " and job_id = ", "$2">>, <<username, jobId>>)
      duplicateCheck == DbSelectApplications(applications, q3.text, q3.params)
      q4 == Query(<<ApplicationInsert, "$1", ", ", "$2", ") RETURNING username, job_id">>,
                  <<username, jobId>>)
      result == DbInsertApplication(applications, q4.text, q4.params)
  IN  IF userCheck.error THEN StorageError(<<q1>>, applications)
      ELSE IF Len(userCheck.rows) = 0
        THEN Thrown("BadRequestError", "User not found", <<q1>>, applications)
      ELSE IF jobCheck.error THEN StorageError(<<q1, q2>>, applications)
      ELSE IF Len(jobCheck.rows) = 0
        THEN Thrown("BadRequestError", "Job not found", <<q1, q2>>, applications)
      ELSE IF duplicateCheck.error THEN StorageError(<<q1, q2, q3>>, applications)
      ELSE IF Len(duplicateCheck.rows) > 0
        THEN Thrown("BadRequestError", "Duplicate application found",
                    <<q1, q2, q3>>, applications)
      ELSE IF result.error THEN StorageError(<<q1, q2, q3, q4>>, applications)
      ELSE Returned([applied |-> jobId], <<q1, q2, q3, q4>>, result.table)

----------------------------------------------------------------------------
(* middleware/auth.js *)

SECRET_KEY == "secret"

\* a token: its payload and the key it was signed with ("" when the text
\* is no token at all)
Token(payload, key) == [payload |-> payload, key |-> key]

\* the payload of a token: { username, isAdmin }
Payload(username, isAdmin) ==
  [t |-> "object", s |-> "", n |-> 0, username |-> username, isAdmin |-> isAdmin]

\* jwt.verify(token, SECRET_KEY): the payload, or a throw
JwtVerify(token, key) ==
  IF token.key = key THEN [threw |-> "none", payload |-> token.payload]
  ELSE [threw |-> "JsonWebTokenError"]

authenticateJWT_PassesError(headers) ==
  IF ~headers.authorization
    THEN [user |-> Undefined, next |-> << Undefined >>]
    ELSE LET verified == JwtVerify(headers.token, SECRET_KEY)
         IN  IF verified.threw = "none"
               THEN [user |-> verified.payload, next |-> << Undefined >>]
             ELSE [user |-> Undefined, next |-> << Str(verified.threw) >>]

\* authenticateJWT: res.locals.user when it returns, and the argument of
\* every call of next it made (undefined: next() without an error)
authenticateJWT(headers) ==
  IF ~headers.authorization
    THEN [user |-> Undefined, next |-> << Undefined >>]
    ELSE LET verified == JwtVerify(headers.token, SECRET_KEY)
         IN  IF verified.threw = "none"
               THEN [user |-> verified.payload, next |-> << Undefined >>]
             ELSE [user |-> Undefined, next |-> << Undefined >>]

\* !v
Not(v) == Bool(~Truthy(v))

ensureIsAdmin_LoggedIn(locals) ==
  IF ~Truthy(locals.user) THEN Throw("UnauthorizedError", "Unauthorized")
  ELSE [threw |-> "none"]

\* ensureIsAdmin: next() or next(err)
ensureIsAdmin(locals) ==
  IF ~Truthy(locals.user) THEN Throw("UnauthorizedError", "Unauthorized")
  ELSE IF Not(locals.user.isAdmin) = Bool(TRUE)
    THEN Throw("UnauthorizedError", "Unauthorized")
  ELSE [threw |-> "none"]

----------------------------------------------------------------------------
(* routes/companies.js and routes/jobs.js: the requests that write *)

u1Token == Token(Payload(Str("u1"), Bool(FALSE)), SECRET_KEY)

u3Token == Token(Payload(Str("u3"), Bool(TRUE)), SECRET_KEY)

\* a token signed before isAdmin was part of the payload
oldToken == Token(Payload(Str("u1"), Undefined), SECRET_KEY)

\* an admin payload signed with another key
forgedToken == Token(Payload(Str("u3"), Bool(TRUE)), "another key")

\* a text that is no token
malformedToken == Token(Undefined, "")

\* the headers of a request: no authorization header, or one with a token
RequestHeaders ==
  { [authorization |-> FALSE, token |-> malformedToken] }
    \cup { [authorization |-> TRUE, token |-> t] :
             t \in {u1Token, u3Token, oldToken, forgedToken, malformedToken} }

newCompany ==
  << [k |-> "handle", v |-> Str("new")], [k |-> "name", v |-> Str("New")],
     [k |-> "logoUrl", v |-> Str("http://new.img")],
     [k |-> "description", v |-> Str("DescNew")],
     [k |-> "numEmployees", v |-> Num(10)] >>

newJob ==
  << [k |-> "title", v |-> Str("testJob")], [k |-> "salary", v |-> Num(100000)],
     [k |-> "equity", v |-> Num(0)], [k |-> "company_handle", v |-> Str("c1")] >>

\* the bodies of the PATCH requests
CompanyPatchBodies == { <<>>, << [k |-> "name", v |-> Str("C1-new")] >> }

JobPatchBodies == { <<>>, << [k |-> "salary", v |-> Num(100000)] >> }

\* the status of the response: that of the error, else that of the handler
StatusCode(threw, ok) ==
  CASE threw = "none" -> ok
    [] threw = "UnauthorizedError" -> 401
    [] threw = "BadRequestError" -> 400
    [] threw = "NotFoundError" -> 404
    [] OTHER -> 500

\* router.<method>(path, ensureIsAdmin, handler): the handler runs if the
\* middleware called next() without an error; it validates the body, if
\* the route does, before it calls the model (r)
AdminRoute(headers, valid, table, r) ==
  LET locals == authenticateJWT(headers)
      gate == ensureIsAdmin(locals)
  IN  IF gate.threw # "none" THEN Thrown(gate.threw, gate.message, <<>>, table)
      ELSE IF ~valid THEN Thrown("BadRequestError", "validator.errors", <<>>, table)
      ELSE r

\* the record of a request: the call record with the headers, what
\* authenticateJWT made of them, the outcome of the validation and the
\* status of the response
Request(op, key, body, headers, valid, ok, r) ==
  Call(op, key, body, body, r)
    @@ [headers |-> headers, locals |-> authenticateJWT(headers), valid |-> valid,
        status |-> StatusCode(r.threw, ok)]

PostCompanies ==
  /\ Idle /\ suite = "routes"
  /\ \E headers \in RequestHeaders, valid \in BOOLEAN :
       LET r == AdminRoute(headers, valid, companies, CompanyCreate(newCompany))
       IN  /\ companies' = r.table
           /\ last' = Request("POST /companies", Undefined, newCompany, headers, valid, 201, r)
  /\ UNCHANGED <<jobs, users, applications, jobIdSeq, suite>>

PatchCompanies ==
  /\ Idle /\ suite = "routes"
  /\ \E headers \in RequestHeaders, valid \in BOOLEAN,
        handle \in UpdateHandles, body \in CompanyPatchBodies :
       LET r == AdminRoute(headers, valid, companies, CompanyUpdate(handle, body))
       IN  /\ companies' = r.table
           /\ last' = Request("PATCH /companies", handle, body, headers, valid, 200, r)
  /\ UNCHANGED <<jobs, users, applications, jobIdSeq, suite>>

DeleteCompanies ==
  /\ Idle /\ suite = "routes"
  /\ \E headers \in RequestHeaders, handle \in Handles :
       LET r == AdminRoute(headers, TRUE, companies, CompanyRemove(handle))
       IN  /\ companies' = r.table
           /\ jobs' = JobsCascade(r.table, jobs)
           /\ applications' = ApplicationsCascade(users, JobsCascade(r.table, jobs),
                                                  applications)
           /\ last' = Request("DELETE /companies", handle, <<>>, headers, TRUE, 200, r)
  /\ UNCHANGED <<users, jobIdSeq, suite>>

PostJobs ==
  /\ Idle /\ suite = "routes"
  /\ jobIdSeq < MaxJobId
  /\ \E headers \in RequestHeaders, valid \in BOOLEAN :
       LET r == AdminRoute(headers, valid, jobs, JobCreate(newJob))
           nextval == "nextval" \in DOMAIN r /\ r.nextval
       IN  /\ jobs' = r.table
           /\ jobIdSeq' = IF nextval THEN jobIdSeq + 1 ELSE jobIdSeq
           /\ last' = Request("POST /jobs", Undefined, newJob, headers, valid, 201, r)
  /\ UNCHANGED <<companies, users, applications, suite>>

PatchJobs ==
  /\ Idle /\ suite = "routes"
  /\ \E headers \in RequestHeaders, valid \in BOOLEAN,
        id \in UpdateJobIds, body \in JobPatchBodies :
       LET r == AdminRoute(headers, valid, jobs, JobUpdate(id, body))
       IN  /\ jobs' = r.table
           /\ last' = Request("PATCH /jobs", id, body, headers, valid, 200, r)
  /\ UNCHANGED <<companies, users, applications, jobIdSeq, suite>>

DeleteJobs ==
  /\ Idle /\ suite = "routes"
  /\ \E headers \in RequestHeaders, id \in JobIds :
       LET r == AdminRoute(headers, TRUE, jobs, JobRemove(id))
       IN  /\ jobs' = r.table
           /\ applications' = ApplicationsCascade(users, r.table, applications)
           /\ last' = Request("DELETE /jobs", id, <<>>, headers, TRUE, 200, r)
  /\ UNCHANGED <<companies, users, jobIdSeq, suite>>

\* the bodies sent to GET /companies: none, filters of a name, a least and
\* a greatest number of employees, and two the schema does not allow
GetFilterMaps ==
  { SelectSeq(<< [k |-> "nameLike", v |-> name], [k |-> "minEmployees", v |-> min],
                 [k |-> "maxEmployees", v |-> max] >>,
              LAMBDA e : e.v # Undefined) :
      name \in {Undefined, Str("c")},
      min \in {Undefined, Num(0), Num(2)},
      max \in {Undefined, Num(-1), Num(1), Num(3)} }

GetBodies ==
  { <<>> } \cup { << [k |-> "filters", v |-> m] >> : m \in GetFilterMaps }
    \cup { << [k |-> "filters", v |-> << [k |-> "nameLike", v |-> Num(3)] >>] >>,
           << [k |-> "filters", v |-> << [k |-> "name", v |-> Str("3")] >>] >> }

\* jsonschema.validate(req.body, companyFilterSchema).valid: the permitted
\* keys, each with a value of its type
CompanyFilterValid(body) ==
  /\ \A i \in 1..Len(body) : body[i].k = "filters"
  /\ Len(body) > 0 =>
       \A i \in 1..Len(Filters(body)) :
         LET e == Filters(body)[i]
         IN  \/ e.k = "nameLike" /\ e.v.t = "string"
             \/ e.k \in {"minEmployees", "maxEmployees"} /\ e.v.t = "number"

\* v >= 0, v <= w: a comparison with undefined is false
GteZero(v) == v.t = "number" /\ v.n >= 0

Lte(v, w) == v.t = "number" /\ w.t = "number" /\ v.n <= w.n

\* req.body.filters.nameLike = "%" + req.body.filters.nameLike + "%"
WrapNameLike(body) ==
  << [k |-> "filters",
      v |-> [i \in 1..Len(Filters(body)) |->
               IF Filters(body)[i].k = "nameLike"
                 THEN [k |-> "nameLike", v |-> Str("%" \o Filters(body)[i].v.s \o "%")]
                 ELSE Filters(body)[i]]] >>

\* router.get("/"): what the handler passes to Company.findAll, or what it
\* throws before it calls it
GetCompaniesHandler(body) ==
  LET hasFilters == Len(body) > 0 /\ Len(Filters(body)) > 0
      minEmployees == IF hasFilters THEN Get(Filters(body), "minEmployees") ELSE Undefined
      maxEmployees == IF hasFilters THEN Get(Filters(body), "maxEmployees") ELSE Undefined
      wrapped == IF hasFilters /\ Truthy(Get(Filters(body), "nameLike"))
                   THEN WrapNameLike(body) ELSE body
  IN  IF ~CompanyFilterValid(body)
        THEN [body |-> body] @@ Thrown("BadRequestError", "validator.errors", <<>>, companies)
      ELSE IF /\ hasFilters
              /\ GteZero(minEmployees) /\ GteZero(maxEmployees)
              /\ Lte(maxEmployees, minEmployees)
        THEN [body |-> body]
               @@ Thrown("BadRequestError",
                         "Max employees must be greater than the min employees",
                         <<>>, companies)
      ELSE [body |-> wrapped] @@ CompanyFindAll(wrapped)

GetCompanies ==
  /\ Idle /\ suite = "routes"
  /\ \E body \in GetBodies :
       LET r == GetCompaniesHandler(body)
       IN  last' = [Request("GET /companies", Undefined, body,
                            [authorization |-> FALSE, token |-> malformedToken],
                            CompanyFilterValid(body), 200, r)
                      EXCEPT !.dataAfter = r.body]
  /\ UNCHANGED <<storage, suite>>

InitRoutes == InitStorage /\ suite = "routes" /\ last = NoCall

NextRoutes ==
  \/ PostCompanies
  \/ PatchCompanies
  \/ DeleteCompanies
  \/ PostJobs
  \/ PatchJobs
  \/ DeleteJobs
  \/ GetCompanies
  \/ Return

SpecRoutes == InitRoutes /\ [][NextRoutes]_vars

----------------------------------------------------------------------------
(* Claims about the requests *)

AdminRoutes ==
  {"POST /companies", "PATCH /companies", "DELETE /companies",
   "POST /jobs", "PATCH /jobs", "DELETE /jobs"}

\* the request carries a token this server signed
Authenticated(headers) == headers.authorization /\ headers.token.key = SECRET_KEY

----------------------------------------------------------------------------
(* Company.create, User.register and User.applyForJob, with the removes    *)
(* and the reads of users                                                   *)

\* a new company, and one under the handle of a company that may be stored
CreateCompanies == { newCompany, [newCompany EXCEPT ![1].v = Str("c1")] }

newUser ==
  << [k |-> "username", v |-> Str("new")], [k |-> "firstName", v |-> Str("Test")],
     [k |-> "lastName", v |-> Str("Tester")], [k |-> "email", v |-> Str("test@test.com")],
     [k |-> "isAdmin", v |-> Bool(FALSE)], [k |-> "password", v |-> Str("password")] >>

RegisterUsers == { newUser, [newUser EXCEPT ![1].v = Str("u1")] }

Applicants == { Str("u1"), Str("u2"), Str("new"), Str("nope") }

CompanyCreateCall ==
  /\ Idle /\ suite = "creates"
  /\ \E data \in CreateCompanies :
       LET r == CompanyCreate(data)
       IN  /\ companies' = r.table
           /\ last' = Call("Company.create", Get(data, "handle"), data, data, r)
  /\ UNCHANGED <<jobs, users, applications, jobIdSeq, suite>>

UserRegisterCall ==
  /\ Idle /\ suite = "creates"
  /\ \E data \in RegisterUsers :
       LET r == UserRegister(data)
       IN  /\ users' = r.table
           /\ last' = Call("User.register", Get(data, "username"), data, data, r)
  /\ UNCHANGED <<companies, jobs, applications, jobIdSeq, suite>>

UserApplyForJobCall ==
  /\ Idle /\ suite = "creates"
  /\ \E username \in Applicants, jobId \in JobIds :
       LET r == UserApplyForJob(username, jobId)
       IN  /\ applications' = r.table
           /\ last' = Call("User.applyForJob", username, jobId, jobId, r)
  /\ UNCHANGED <<companies, jobs, users, jobIdSeq, suite>>

InitCreate ==
  /\ InitStorage
  /\ suite = "creates"
  /\ last = NoCall

NextCreate ==
  \/ CompanyCreateCall
  \/ UserRegisterCall
  \/ UserApplyForJobCall
  \/ CompanyRemoveCall
  \/ UserRemoveCall
  \/ UserGetCall
  \/ UserFindAllCall
  \/ Return

SpecCreate == InitCreate /\ [][NextCreate]_vars

CreateOps == {"Company.create", "User.register"}

\* the table a create inserts into, before the call and now
CreateBefore == IF last.op = "Company.create" THEN last.before.companies ELSE last.before.users

CreateNow == IF last.op = "Company.create" THEN companies ELSE users

(* C21: Company.create with a handle that is stored, and User.register     *)
(* with a username that is stored, throw BadRequestError and leave every   *)
(* table as it was (the stored row is neither doubled nor replaced); with  *)
(* a key that is not stored they add exactly the row of that key.  So      *)
(* through creates, registers and removes the number of rows of a table    *)
(* grows by one only when a key that was not stored is inserted: there is  *)
(* at most one company per handle and one user per username.               *)
C21_DuplicateKeyRejected ==
  last.op \in CreateOps =>
    IF last.key \in DOMAIN CreateBefore
      THEN /\ last.result.threw = "BadRequestError"
           /\ StorageUnchanged
      ELSE /\ last.result.threw = "none"
           /\ DOMAIN CreateNow = DOMAIN CreateBefore \cup {last.key}
           /\ Cardinality(DOMAIN CreateNow) = Cardinality(DOMAIN CreateBefore) + 1
           /\ \A k \in DOMAIN CreateBefore : CreateNow[k] = CreateBefore[k]

\* a company is removed, created again, and then created once more
C21_Witness ==
  /\ last.op = "Company.create"
  /\ last.key = Str("c1")
  /\ last.key \in DOMAIN last.before.companies
  /\ last.before.companies[last.key].name = Str("New")
  /\ last.result.threw = "BadRequestError"

FirstRows(rows) ==
  { i \in 1..Len(rows) : \A j \in 1..(i - 1) : rows[j].username # rows[i].username }

\* the index of the row with which the k-th distinct username appears first
FirstRow(rows, k) ==
  CHOOSE i \in FirstRows(rows) : Cardinality({ j \in FirstRows(rows) : j < i }) = k - 1

\* the rows of one username follow one another
ContiguousRows(rows) ==
  \A i, j \in 1..Len(rows) :
    (i < j /\ rows[i].username = rows[j].username) =>
      \A m \in i..j : rows[m].username = rows[i].username

(* C23: for joined rows in which the rows of a username are contiguous,    *)
(* User.findAll emits one entity for every distinct username, in order of  *)
(* first appearance, with the parent columns of that username's rows; the  *)
(* jobs of an entity are the job_id values of the rows of its username and *)
(* of no other row, in row order (the job_id of a row is taken as it is,   *)
(* a null included); and the accumulator is empty again after every        *)
(* entity, the last included.                                               *)
C23_OneEntityPerUsername ==
  (FoundAll /\ ContiguousRows(last.data)) =>
    LET rows == last.data
        ret == last.result.ret
    IN  /\ Len(ret) = Cardinality(FirstRows(rows))
        /\ \A k \in 1..Len(ret) :
             LET first == rows[FirstRow(rows, k)]
             IN  /\ ret[k].username = first.username
                 /\ ret[k].firstName = first.firstName
                 /\ ret[k].lastName = first.lastName
                 /\ ret[k].email = first.email
                 /\ ret[k].isAdmin = first.isAdmin
                 /\ ret[k].jobs = RowJobIds(rows, first.username)
                 /\ Len(ret[k].jobs) =
                      Cardinality({ i \in 1..Len(rows) : rows[i].username = first.username })
        /\ last.result.objects.heap[JobsRef] = <<>>

\* three users, the first registered after the others, the second with two
\* applications and the third with one
C23_Witness ==
  /\ FoundAll
  /\ Len(last.data) = 4
  /\ Len(last.result.ret) = 3
  /\ last.result.ret[1].username = Str("new")
  /\ Len(last.result.ret[2].jobs) = 2
  /\ last.result.ret[3].jobs = << Num(2) >>

\* the (username, job_id) pairs of the rows of a table of applications
Pairs(table) == { <<a[1], a[2]>> : a \in table }

(* C24: User.applyForJob(username, jobId) throws BadRequestError and       *)
(* leaves every table unchanged when the user is not stored, when the job  *)
(* is not stored, or when the pair is already an application; otherwise it *)
(* inserts the row of that one pair and returns { applied: jobId }.  So    *)
(* the applications table holds no pair twice.                              *)
C24_ApplyOncePerPair ==
  /\ \A a \in applications : a[3] = 1
  /\ last.op = "User.applyForJob" =>
       IF \/ last.key \notin DOMAIN last.before.users
          \/ last.data \notin DOMAIN last.before.jobs
          \/ <<last.key, last.data>> \in Pairs(last.before.applications)
         THEN /\ last.result.threw = "BadRequestError"
              /\ StorageUnchanged
         ELSE /\ last.result.threw = "none"
              /\ last.result.ret = [applied |-> last.data]
              /\ applications =
                   last.before.applications \cup {ApplicationRow(last.key, last.data, 1)}
              /\ Cardinality(applications) = Cardinality(last.before.applications) + 1
              /\ [last.before EXCEPT !.applications = applications] = Snapshot

\* a user applies again for a job they have applied for
C24_Witness ==
  /\ last.op = "User.applyForJob"
  /\ last.key = Str("u2")
  /\ last.key \in DOMAIN last.before.users
  /\ last.data \in DOMAIN last.before.jobs
  /\ <<last.key, last.data>> \in Pairs(last.before.applications)
  /\ last.result.threw = "BadRequestError"
  /\ last.result.message = "Duplicate application found"

----------------------------------------------------------------------------
(* Claims about a key after its removal *)

KeyOps == GetOps \cup UpdateOps \cup RemoveOps

\* the table a get, an update or a remove addresses
KeyTable(op) ==
  CASE op \in {"Company.get", "Company.update", "Company.remove"} -> "companies"
    [] op \in {"Job.get", "Job.update", "Job.remove"} -> "jobs"
    [] OTHER -> "users"

\* a successful remove takes away the row of its key and no other row of
\* its table
RemoveFrame ==
  (last.op \in RemoveOps /\ last.result.threw = "none") =>
    LET before == last.before[KeyTable(last.op)]
        now == Snapshot[KeyTable(last.op)]
    IN  /\ last.key \in DOMAIN before
        /\ DOMAIN now = DOMAIN before \ {last.key}
        /\ \A other \in DOMAIN now : now[other] = before[other]

StoredKeys ==
  ({"companies"} \X DOMAIN InitCompanies) \cup ({"jobs"} \X DOMAIN InitJobs)
    \cup ({"users"} \X DOMAIN InitUsers)

\* the call just made is a get, an update or a remove of a key that was
\* stored at first and has been removed (no call of Spec creates a key, so
\* no such key is created again)
OnRemovedKey ==
  /\ last.op \in KeyOps
  /\ <<KeyTable(last.op), last.key>> \in StoredKeys
  /\ last.key \notin DOMAIN last.before[KeyTable(last.op)]

(* C25 as claimed: after a successful remove of a key the row is absent    *)
(* and every other row of the table is unchanged, and as long as the key   *)
(* is not created again every get, update and remove of it throws          *)
(* NotFoundError.                                                           *)
C25_RemovedKeyNotFound ==
  /\ RemoveFrame
  /\ OnRemovedKey => last.result.threw = "NotFoundError"

(* C25 as amended: the same, but an update with empty data throws          *)
(* BadRequestError("No data") before the key is looked up; every other    *)
(* get, update and remove of the removed key throws NotFoundError, and     *)
(* none of them changes a table or returns normally.                        *)
C25_RemovedKeyNotFoundUnlessEmptyData ==
  /\ RemoveFrame
  /\ OnRemovedKey =>
       /\ last.result.threw =
            (IF last.op \in UpdateOps /\ Len(last.data) = 0
               THEN "BadRequestError" ELSE "NotFoundError")
       /\ StorageUnchanged

\* a company was removed and is then updated with a name: NotFoundError
C25_Witness ==
  /\ last.op = "Company.update"
  /\ last.key = Str("c1")
  /\ last.key \in DOMAIN InitCompanies
  /\ last.key \notin DOMAIN last.before.companies
  /\ Len(last.data) = 1
  /\ last.result.threw = "NotFoundError"

----------------------------------------------------------------------------
(* Claims about GET /companies *)

\* the filters of the request name a least number of employees that is
\* greater than the greatest
MinAboveMax ==
  /\ last.op = "GET /companies"
  /\ last.valid
  /\ Len(last.data) > 0
  /\ Get(Filters(last.data), "minEmployees").t = "number"
  /\ Get(Filters(last.data), "maxEmployees").t = "number"
  /\ Get(Filters(last.data), "minEmployees").n > Get(Filters(last.data), "maxEmployees").n

(* C26: GET /companies with filters in which minEmployees is greater than  *)
(* maxEmployees is answered 400 (BadRequestError), and Company.findAll is  *)
(* not called: no statement is sent.                                        *)
C26_MinAboveMaxRejected ==
  MinAboveMax =>
    /\ last.result.threw = "BadRequestError"
    /\ last.status = 400
    /\ last.result.queries = <<>>

----------------------------------------------------------------------------
(* Claims about authenticateJWT *)

Requests == AdminRoutes \cup {"GET /companies"}

(* C27: authenticateJWT never fails a request.  Whatever the request       *)
(* carries (no authorization header, a text that is no token, a token      *)
(* signed with another key, a token this server signed), it calls next     *)
(* exactly once and with no error; and res.locals.user is the payload of   *)
(* the token when there is an authorization header whose token verifies,   *)
(* and is left unset otherwise.                                             *)
C27_AuthenticateNeverFails ==
  last.op \in Requests =>
    /\ last.locals.next = << Undefined >>
    /\ last.locals.user =
         (IF last.headers.authorization /\ last.headers.token.key = SECRET_KEY
            THEN last.headers.token.payload
            ELSE Undefined)

\* a request with a token signed with another key went through
\* authenticateJWT without a user, and was then turned away by the route
C27_Witness ==
  /\ last.op = "DELETE /jobs"
  /\ last.headers.authorization
  /\ last.headers.token = forgedToken
  /\ last.locals.user = Undefined
  /\ last.locals.next = << Undefined >>
  /\ last.status = 401

----------------------------------------------------------------------------
(* Claims about the inputs of an update *)

(* C28: running an update never modifies the caller's inputs.  After       *)
(* Company.update, Job.update or User.update, on success or on error, the  *)
(* data mapping that was passed in has the same keys and the same values   *)
(* as before the call.                                                      *)
C28_UpdateLeavesData ==
  last.op \in UpdateOps => last.dataAfter = last.data

----------------------------------------------------------------------------
(* Two calls of one creation in flight at once.  Every await db.query(...)  *)
(* is a point at which the other call may run; the storage engine runs the  *)
(* statements one at a time, in the order they arrive.                      *)

Procs == {1, 2}

RaceMethods == {"Company.create", "User.register", "User.applyForJob"}

\* the arguments both calls are made with
RaceArgs(method) ==
  CASE method = "Company.create" -> CreateCompanies
    [] method = "User.register" -> RegisterUsers
    [] OTHER -> { <<username, jobId>> : username \in Applicants, jobId \in JobIds }

\* both calls are made: each is before its first statement
RaceStart ==
  /\ Idle /\ suite = "races"
  /\ \E method \in RaceMethods :
       \E args \in RaceArgs(method) :
         last' = [op |-> "race", method |-> method, args |-> args,
                  pc |-> [p \in Procs |-> "check"],
                  threw |-> [p \in Procs |-> "pending"],
                  before |-> Snapshot]
  /\ UNCHANGED <<storage, suite>>

InFlight(method, p, at) ==
  last.op = "race" /\ last.method = method /\ last.pc[p] = at

\* the statement of call p is done: the call goes on to `to`, or it has
\* thrown or returned
Step(p, threw, to) ==
  last' = [last EXCEPT !.pc[p] = IF threw = "pending" THEN to ELSE "done",
                       !.threw[p] = threw]

\* what a duplicate check makes of the rows it selected
CheckOutcome(res) ==
  IF res.error THEN "StorageError"
  ELSE IF Len(res.rows) > 0 THEN "BadRequestError"
  ELSE "pending"

\* what a check that a row is stored makes of the rows it selected
FoundOutcome(res) ==
  IF res.error THEN "StorageError"
  ELSE IF Len(res.rows) = 0 THEN "BadRequestError"
  ELSE "pending"

InsertOutcome(res) == IF res.error THEN "StorageError" ELSE "none"

CompanyCreateCheck ==
  /\ \E p \in Procs :
       /\ InFlight("Company.create", p, "check")
       /\ LET q == Query(<<"SELECT handle FROM companies WHERE handle = ", "$1">>,
                         << Get(last.args, "handle") >>)
              duplicateCheck == DbSelectByKey("companies", companies, q.text, q.params)
          IN  Step(p, CheckOutcome(duplicateCheck), "insert")
  /\ UNCHANGED <<storage, suite>>

CompanyCreateInsert ==
  /\ \E p \in Procs :
       /\ InFlight("Company.create", p, "insert")
       /\ LET data == last.args
              q == Query(<<CompanyInsert>> \o ValuesList(5) \o <<CompanyReturning>>,
                         << Get(data, "handle"), Get(data, "name"), Get(data, "description"),
                            Get(data, "numEmployees"), Get(data, "logoUrl") >>)
              result == DbInsert("companies", companies, q.text, q.params)
          IN  /\ companies' = result.table
              /\ Step(p, InsertOutcome(result), "done")
  /\ UNCHANGED <<jobs, users, applications, jobIdSeq, suite>>

UserRegisterCheck ==
  /\ \E p \in Procs :
       /\ InFlight("User.register", p, "check")
       /\ LET q == Query(<<"SELECT username FROM users WHERE username = ", "$1">>,
                         << Get(last.args, "username") >>)
              duplicateCheck == DbSelectByKey("users", users, q.text, q.params)
          IN  Step(p, CheckOutcome(duplicateCheck), "insert")
  /\ UNCHANGED <<storage, suite>>

UserRegisterInsert ==
  /\ \E p \in Procs :
       /\ InFlight("User.register", p, "insert")
       /\ LET data == last.args
              q == Query(<<UserInsert>> \o ValuesList(6) \o <<UserReturning>>,
                         << Get(data, "username"), Hash(Get(data, "password")),
                            Get(data, "firstName"), Get(data, "lastName"),
                            Get(data, "email"), Get(data, "isAdmin") >>)
              result == DbInsert("users", users, q.text, q.params)
          IN  /\ users' = result.table
              /\ Step(p, InsertOutcome(result), "done")
  /\ UNCHANGED <<companies, jobs, applications, jobIdSeq, suite>>

ApplyUserCheck ==
  /\ \E p \in Procs :
       /\ InFlight("User.applyForJob", p, "check")
       /\ LET q == Query(<<"SELECT username FROM users WHERE username = ", "$1">>,
                         << last.args[1] >>)
              userCheck == DbSelectByKey("users", users, q.text, q.params)
          IN  Step(p, FoundOutcome(userCheck), "jobCheck")
  /\ UNCHANGED <<storage, suite>>

ApplyJobCheck ==
  /\ \E p \in Procs :
       /\ InFlight("User.applyForJob", p, "jobCheck")
       /\ LET q == Query(<<"SELECT id FROM jobs WHERE id = ", "$1">>, << last.args[2] >>)
              jobCheck == DbSelectByKey("jobs", jobs, q.text, q.params)
          IN  Step(p, FoundOutcome(jobCheck), "duplicateCheck")
  /\ UNCHANGED <<storage, suite>>

ApplyDuplicateCheck ==
  /\ \E p \in Procs :
       /\ InFlight("User.applyForJob", p, "duplicateCheck")
       /\ LET q == Query(<<ApplicationSelect, "$1", " and job_id = ", "$2">>, last.args)
              duplicateCheck == DbSelectApplications(applications, q.text, q.params)
          IN  Step(p, CheckOutcome(duplicateCheck), "insert")
  /\ UNCHANGED <<storage, suite>>

ApplyInsert ==
  /\ \E p \in Procs :
       /\ InFlight("User.applyForJob", p, "insert")
       /\ LET q == Query(<<ApplicationInsert, "$1", ", ", "$2",
                           ") RETURNING username, job_id">>, last.args)
              result == DbInsertApplication(applications, q.text, q.params)
          IN  /\ applications' = result.table
              /\ Step(p, InsertOutcome(result), "done")
  /\ UNCHANGED <<companies, jobs, users, jobIdSeq, suite>>

\* both calls have returned or thrown
RaceOver == last.op = "race" /\ \A p \in Procs : last.pc[p] = "done"

RaceReturn ==
  /\ RaceOver
  /\ last' = NoCall
  /\ UNCHANGED <<storage, suite>>

InitRace == InitStorage /\ suite = "races" /\ last = NoCall

NextRace ==
  \/ RaceStart
  \/ CompanyCreateCheck
  \/ CompanyCreateInsert
  \/ UserRegisterCheck
  \/ UserRegisterInsert
  \/ ApplyUserCheck
  \/ ApplyJobCheck
  \/ ApplyDuplicateCheck
  \/ ApplyInsert
  \/ RaceReturn

SpecRace == InitRace /\ [][NextRace]_vars

\* the rows stored under the key the two calls create
RaceRows ==
  CASE last.method = "Company.create" ->
         { k \in DOMAIN companies : k = Get(last.args, "handle") }
    [] last.method = "User.register" ->
         { k \in DOMAIN users : k = Get(last.args, "username") }
    [] OTHER -> { a \in applications : a[1] = last.args[1] /\ a[2] = last.args[2] }

(* C29: for every interleaving of two concurrent creations with one key    *)
(* (Company.create with one handle, User.register with one username,       *)
(* User.applyForJob with one pair), when both calls are over at most one   *)
(* row with that key is stored, at most one of the calls has returned, and *)
(* a call that has not returned has thrown BadRequestError.                *)
C29_OneCreationWins ==
  RaceOver =>
    /\ Cardinality(RaceRows) <= 1
    /\ Cardinality({ p \in Procs : last.threw[p] = "none" }) <= 1
    /\ \A p \in Procs : last.threw[p] \in {"none", "BadRequestError"}

----------------------------------------------------------------------------
(* Claims about applying and reading back *)

\* jobs holds exactly the job ids the user has applied for, each once
ExactlyApplied(jobsList, username) ==
  /\ { jobsList[i] : i \in 1..Len(jobsList) } = AppliedJobs(username)
  /\ Len(jobsList) = Cardinality(AppliedJobs(username))

(* C30: in any state reached by registers and applications, for a stored   *)
(* user u both User.get(u).jobs and the jobs of the entity of u in         *)
(* User.findAll hold exactly the job ids u has applied for with success,   *)
(* each once, and no job id another user applied for.                       *)
C30_ReadsBackApplications ==
  /\ (last.op = "User.get" /\ last.result.threw = "none") =>
       ExactlyApplied(last.result.ret.jobs, last.key)
  /\ FoundAll =>
       \A i \in 1..Len(last.result.ret) :
         ExactlyApplied(last.result.ret[i].jobs, last.result.ret[i].username)

====
